---------------------------- MODULE Spec2Model ----------------------------
(***************************************************************************)
(* Border-router transport (embenet_brt.c) of the embeNET node port for    *)
(* nRF52832: HDLC-style framing with byte stuffing and CRC-16, the frame   *)
(* reassembly state machine of EMBENET_BRT_Receive, and the byte queues    *)
(* between the UART interrupt handlers and the main context.               *)
(*                                                                         *)
(* Bytes are integers 0..255, uint16_t values are integers 0..65535.       *)
(***************************************************************************)
EXTENDS Integers, Sequences, FiniteSets, TLC

(***************************************************************************)
(* Program constants                                                       *)
(***************************************************************************)
HDLC_FLAG == 126

HDLC_ESCAPE == 125

HDLC_ESCAPE_MASK == 32

HDLC_CRCINIT == 65535

HDLC_CRCGOOD == 61624

EMBENET_BRT_MAX_FRAME_SIZE == 200

OUTPUT_RING_BUFFER_SIZE == 256

INPUT_RING_BUFFER_SIZE == 512

EMBENET_RADIO_MAX_PSDU_LENGTH == 128

EMBENET_RADIO_MIN_PSDU_LENGTH == 1

(* embenet_timer.c *)
GUARD_US == 62

(* PERIOD_SCALED_UP / SCALE_FACTOR = 30517578125 / 1000000000, the RTC  *)
(* period in us, reduced to PERIOD_NUM / PERIOD_DEN                    *)
PERIOD_NUM == 15625

PERIOD_DEN == 512

TIMER_MAX_VALUE == 16777215

MAX_COMPARE_DURATION_US == 250000000

OVERFLOW_EXTENSION_US == 512000000

(***************************************************************************)
(* uint32_t and uint64_t values of embenet_timer.c are held in two limbs:  *)
(* [hi, lo] is hi * Limb + lo with lo in 0..Limb-1, so that the cast to    *)
(* EMBENET_TimeUs (uint32_t) is hi % Limb.                                 *)
(***************************************************************************)
Limb == 65536

WideOf(n) == [hi |-> n \div Limb, lo |-> n % Limb]

WideAdd(a, b) ==
    [hi |-> a.hi + b.hi + ((a.lo + b.lo) \div Limb), lo |-> (a.lo + b.lo) % Limb]

WideTimes(a, k) ==
    [hi |-> a.hi * k + ((a.lo * k) \div Limb), lo |-> (a.lo * k) % Limb]

(* (EMBENET_TimeUs)(a) *)
Truncate32(a) == [hi |-> a.hi % Limb, lo |-> a.lo]

(* (EMBENET_TimeUs)(a - b) *)
WideSub32(a, b) ==
    LET borrow == IF a.lo < b.lo THEN 1 ELSE 0
    IN  [hi |-> (a.hi - b.hi - borrow) % Limb, lo |-> (a.lo - b.lo) % Limb]

WideLess(a, b) == a.hi < b.hi \/ (a.hi = b.hi /\ a.lo < b.lo)

(* the value of a, which is below 2^31 *)
WideToInt(a) == a.hi * Limb + a.lo

Byte == 0..255

(***************************************************************************)
(* Bitwise exclusive or of two naturals (C operator ^).                    *)
(***************************************************************************)
RECURSIVE BitXor(_, _)
BitXor(a, b) ==
    IF a = 0 THEN b
    ELSE IF b = 0 THEN a
    ELSE (((a % 2) + (b % 2)) % 2) + (2 * BitXor(a \div 2, b \div 2))

(***************************************************************************)
(* Evaluation order: TLC evaluates LET definitions and operator arguments  *)
(* on demand, which nests the evaluation of a long loop as deep as the     *)
(* loop is long.  Force(v, e) is e, with v evaluated first.                *)
(***************************************************************************)
Force(v, e) == IF v = v THEN e ELSE e

(***************************************************************************)
(* (uint16_t)(~x)                                                          *)
(***************************************************************************)
Not16(x) == 65535 - x

(***************************************************************************)
(* static const uint16_t fcstab[256]; fcstab[i + 1] here is fcstab[i] in C *)
(***************************************************************************)
fcstab ==
  <<
     0, 4489, 8978, 12955, 17956, 22445, 25910, 29887,
     35912, 40385, 44890, 48851, 51820, 56293, 59774, 63735,
     4225, 264, 13203, 8730, 22181, 18220, 30135, 25662,
     40137, 36160, 49115, 44626, 56045, 52068, 63999, 59510,
     8450, 12427, 528, 5017, 26406, 30383, 17460, 21949,
     44362, 48323, 36440, 40913, 60270, 64231, 51324, 55797,
     12675, 8202, 4753, 792, 30631, 26158, 21685, 17724,
     48587, 44098, 40665, 36688, 64495, 60006, 55549, 51572,
     16900, 21389, 24854, 28831, 1056, 5545, 10034, 14011,
     52812, 57285, 60766, 64727, 34920, 39393, 43898, 47859,
     21125, 17164, 29079, 24606, 5281, 1320, 14259, 9786,
     57037, 53060, 64991, 60502, 39145, 35168, 48123, 43634,
     25350, 29327, 16404, 20893, 9506, 13483, 1584, 6073,
     61262, 65223, 52316, 56789, 43370, 47331, 35448, 39921,
     29575, 25102, 20629, 16668, 13731, 9258, 5809, 1848,
     65487, 60998, 56541, 52564, 47595, 43106, 39673, 35696,
     33800, 38273, 42778, 46739, 49708, 54181, 57662, 61623,
     2112, 6601, 11090, 15067, 20068, 24557, 28022, 31999,
     38025, 34048, 47003, 42514, 53933, 49956, 61887, 57398,
     6337, 2376, 15315, 10842, 24293, 20332, 32247, 27774,
     42250, 46211, 34328, 38801, 58158, 62119, 49212, 53685,
     10562, 14539, 2640, 7129, 28518, 32495, 19572, 24061,
     46475, 41986, 38553, 34576, 62383, 57894, 53437, 49460,
     14787, 10314, 6865, 2904, 32743, 28270, 23797, 19836,
     50700, 55173, 58654, 62615, 32808, 37281, 41786, 45747,
     19012, 23501, 26966, 30943, 3168, 7657, 12146, 16123,
     54925, 50948, 62879, 58390, 37033, 33056, 46011, 41522,
     23237, 19276, 31191, 26718, 7393, 3432, 16371, 11898,
     59150, 63111, 50204, 54677, 41258, 45219, 33336, 37809,
     27462, 31439, 18516, 23005, 11618, 15595, 3696, 8185,
     63375, 58886, 54429, 50452, 45483, 40994, 37561, 33584,
     31687, 27214, 22741, 18780, 15843, 11370, 7921, 3960 >>

(***************************************************************************)
(* uint16_t openhdlc_crc(uint16_t crc, uint8_t byte)                       *)
(***************************************************************************)
(* openhdlc_crc without the shift of the accumulator *)
openhdlc_crc_NoShift(crc, byte) ==
    BitXor(crc, fcstab[(BitXor(crc, byte) % 256) + 1])

openhdlc_crc(crc, byte) ==
    BitXor(crc \div 256, fcstab[(BitXor(crc, byte) % 256) + 1])

(***************************************************************************)
(* Byte queue (ring_buffer.h): FIFO of at most `size` bytes; a push on a   *)
(* full queue is rejected.                                                 *)
(***************************************************************************)
RingBuffer_Init == << >>

(* RingBuffer_GetLen that never reports an empty queue *)
RingBuffer_GetLen_NeverEmpty(rb) == IF Len(rb) > 0 THEN Len(rb) ELSE 1

RingBuffer_GetLen(rb) == Len(rb)

RingBuffer_PutChar(rb, c, size) == IF Len(rb) < size THEN Append(rb, c) ELSE rb

(***************************************************************************)
(* State                                                                   *)
(*   outputRingBuffer, inputRingBuffer : the two byte queues               *)
(*   isTransmitting                    : transmission in progress          *)
(*   uartTx      : bytes handed to EMBENET_NODE_BSP_UART_WriteByte, in     *)
(*                 order                                                   *)
(*   txPending   : bytes written to the UART whose transmit-complete       *)
(*                 interrupt has not been served yet                       *)
(*   inputFrame, inputFrameDataIndex, inputFrameReceiving, lastDataByte :  *)
(*                 the function-static decoder session of                  *)
(*                 EMBENET_BRT_Receive                                     *)
(*   packetBuffer: the caller's destination buffer of EMBENET_BRT_Receive  *)
(*   wire        : bytes on the serial line towards the node that rx_isr   *)
(*                 has not read yet                                        *)
(* History of the calls made, used to state properties:                    *)
(*   written     : bytes passed to uartWrite by the last EMBENET_BRT_Send  *)
(*   sent        : payloads passed to EMBENET_BRT_Send, in call order      *)
(*   results     : payloads returned by EMBENET_BRT_Receive (non-zero      *)
(*                 results), in call order                                 *)
(*   consumed    : bytes EMBENET_BRT_Receive has popped from the inbound   *)
(*                 queue, in order                                         *)
(*   minCap      : smallest packetBufferSize passed to EMBENET_BRT_Receive *)
(*   last        : what the last EMBENET_BRT_Receive call did              *)
(*   input       : the inputs drawn for this run                           *)
(*   txJob       : bytes the running EMBENET_BRT_Send / EMBENET_BRT_SendRaw *)
(*                 call has still to pass to uartWrite                     *)
(*   passed      : every byte passed to uartWrite, in order                *)
(*   accepted    : the bytes of passed that were written to the UART or    *)
(*                 taken by the outbound queue                             *)
(*   txCall      : the last send call started and the number of calls      *)
(*   raw         : what the last EMBENET_BRT_ReceiveRaw call did           *)
(* Critical section (embenet_critical_section.c) and interrupt masking:    *)
(*   irqNestCounter, previousIrqState : the statics of the module          *)
(*   primask     : 1 when interrupts are disabled (PRIMASK)                *)
(*   irqState    : the local of a running EMBENET_CRITICAL_SECTION_Enter   *)
(*   csJob, csFn : the operations the function running in the main        *)
(*                 context has still to execute, and its name              *)
(*   unguarded   : queue accesses made outside the critical section        *)
(*   outerIrq    : primask right before the outermost Enter                *)
(*   uart        : callbacks and interrupt enable of the UART BSP          *)
(*   initJob     : steps left of a running EMBENET_BRT_Init / Deinit       *)
(*   lineAtReset : bytes still to arrive when the inbound queue was reset  *)
(*   radio       : admin and state of the radio driver, the HFXO           *)
(*   timer       : RTC counter and events, statics of the timer port       *)
(*   rxRun       : position and locals of a running EMBENET_BRT_Receive    *)
(*   crcRun      : accumulator, byte and result of an openhdlc_crc call    *)
(***************************************************************************)
VARIABLES outputRingBuffer, inputRingBuffer, isTransmitting, uartTx, txPending,
          inputFrame, inputFrameDataIndex, inputFrameReceiving, lastDataByte,
          packetBuffer, wire, written, sent, results, consumed, minCap, last,
          input, txJob, passed, accepted, txCall, raw,
          irqNestCounter, previousIrqState, primask, irqState, csJob, csFn,
          unguarded, outerIrq,
          uart, initJob, lineAtReset, radio, timer, rxRun, crcRun

txVars == <<outputRingBuffer, isTransmitting, uartTx, txPending>>

decoderVars == <<inputFrame, inputFrameDataIndex, inputFrameReceiving, lastDataByte>>

vars == <<outputRingBuffer, inputRingBuffer, isTransmitting, uartTx, txPending,
          inputFrame, inputFrameDataIndex, inputFrameReceiving, lastDataByte,
          packetBuffer, wire, written, sent, results, consumed, minCap, last,
          input, txJob, passed, accepted, txCall, raw,
          irqNestCounter, previousIrqState, primask, irqState, csJob, csFn,
          unguarded, outerIrq,
          uart, initJob, lineAtReset, radio, timer, rxRun, crcRun>>

txHist == <<txJob, passed, accepted, txCall>>

portVars == <<uart, initJob, lineAtReset, radio, timer, rxRun, crcRun>>

bspVars == <<uart, initJob, lineAtReset>>

devVars == <<radio, timer, crcRun>>

csVars == <<irqNestCounter, previousIrqState, primask, irqState, csJob, csFn,
            unguarded, outerIrq>>

(***************************************************************************)
(* Transmit side.  t is the record                                         *)
(*   [isTransmitting, ring, uart, pending, written]                        *)
(* of the transmit state a call works on.                                  *)
(***************************************************************************)
EMBENET_NODE_BSP_UART_WriteByte(t, data) ==
    [t EXCEPT !.uart = Append(@, data), !.pending = @ + 1]

(* uartWrite that starts a transmission without marking it *)
uartWrite_NoFlag(t, data) ==
    LET w == [t EXCEPT !.written = Append(@, data)]
    IN  IF w.isTransmitting
        THEN [w EXCEPT !.ring = RingBuffer_PutChar(@, data, OUTPUT_RING_BUFFER_SIZE)]
        ELSE EMBENET_NODE_BSP_UART_WriteByte(w, data)

uartWrite(t, data) ==
    LET w == [t EXCEPT !.written = Append(@, data)]
    IN  IF w.isTransmitting
        THEN [w EXCEPT !.ring = RingBuffer_PutChar(@, data, OUTPUT_RING_BUFFER_SIZE)]
        ELSE EMBENET_NODE_BSP_UART_WriteByte([w EXCEPT !.isTransmitting = TRUE], data)

putFlag(t, flag) == uartWrite(t, flag)

(* putByte that stuffs FLAG only *)
putByte_FlagOnly(t, byte) ==
    IF byte = HDLC_FLAG
    THEN uartWrite(uartWrite(t, HDLC_ESCAPE), BitXor(byte, HDLC_ESCAPE_MASK))
    ELSE uartWrite(t, byte)

putByte(t, byte) ==
    IF byte = HDLC_FLAG \/ byte = HDLC_ESCAPE
    THEN uartWrite(uartWrite(t, HDLC_ESCAPE), BitXor(byte, HDLC_ESCAPE_MASK))
    ELSE uartWrite(t, byte)

(* One iteration of the for loop of EMBENET_BRT_Send; s = [t, finalCrc] *)
SendStep(s, byte) ==
    [t |-> putByte(s.t, byte), finalCrc |-> openhdlc_crc(s.finalCrc, byte)]

(* The for loop of EMBENET_BRT_Send over packetBytes[from .. to], the      *)
(* iterations in index order (the range is halved to keep the evaluation   *)
(* shallow)                                                                *)
RECURSIVE SendLoop(_, _, _, _)
SendLoop(s, packetBytes, from, to) ==
    IF from > to THEN s
    ELSE IF from = to THEN SendStep(s, packetBytes[from])
    ELSE LET mid == (from + to) \div 2
             left == SendLoop(s, packetBytes, from, mid)
         IN  Force(left, SendLoop(left, packetBytes, mid + 1, to))

(* EMBENET_BRT_Send writing the CRC bytes without stuffing them *)
SendFrame_RawCrc(t, packetBytes) ==
    LET s0 == putFlag(t, HDLC_FLAG)
        lp == SendLoop([t |-> s0, finalCrc |-> HDLC_CRCINIT], packetBytes, 1, Len(packetBytes))
        finalCrc == Not16(lp.finalCrc)
        s1 == uartWrite(lp.t, finalCrc % 256)
        s2 == uartWrite(s1, (finalCrc \div 256) % 256)
    IN  putFlag(s2, HDLC_FLAG)

(* EMBENET_BRT_Send(packet, packetLength) on the transmit state t *)
SendFrame(t, packetBytes) ==
    LET s0 == putFlag(t, HDLC_FLAG)
        lp == SendLoop([t |-> s0, finalCrc |-> HDLC_CRCINIT], packetBytes, 1, Len(packetBytes))
        finalCrc == Not16(lp.finalCrc)
        s1 == putByte(lp.t, finalCrc % 256)
        s2 == putByte(s1, (finalCrc \div 256) % 256)
    IN  putFlag(s2, HDLC_FLAG)

TxState ==
    [isTransmitting |-> isTransmitting, ring |-> outputRingBuffer,
     uart |-> uartTx, pending |-> txPending, written |-> << >>]

(* The bytes one EMBENET_BRT_Send(packet) call passes to uartWrite *)
SendBytes(packetBytes) ==
    SendFrame([isTransmitting |-> FALSE, ring |-> << >>, uart |-> << >>,
               pending |-> 0, written |-> << >>], packetBytes).written

(***************************************************************************)
(* Receive side.  d is the record of the decoder session plus the local    *)
(* frameComplete of the running call.                                      *)
(***************************************************************************)
StoreByte(d, value) ==
    [d EXCEPT !.inputFrame[d.inputFrameDataIndex + 1] = value,
              !.inputFrameDataIndex = @ + 1]

(* the frame start that keeps the accumulator index *)
FrameStart_KeepIndex(d) ==
    [d EXCEPT !.inputFrameReceiving = TRUE]

FrameStart(d) ==
    [d EXCEPT !.inputFrameReceiving = TRUE, !.inputFrameDataIndex = 0]

(* DecodeByte storing the byte after ESCAPE as it came *)
DecodeByte_NoUnescape(d, dataByte) ==
    LET e ==
        IF ~d.inputFrameReceiving
        THEN IF dataByte = HDLC_FLAG THEN FrameStart(d) ELSE d
        ELSE IF dataByte = HDLC_FLAG
             THEN IF d.lastDataByte # HDLC_FLAG
                  THEN IF d.inputFrameDataIndex > 2
                       THEN [d EXCEPT !.inputFrameReceiving = FALSE,
                                      !.frameComplete = TRUE]
                       ELSE FrameStart(d)
                  ELSE FrameStart(d)
             ELSE IF d.inputFrameDataIndex < EMBENET_BRT_MAX_FRAME_SIZE
                  THEN IF dataByte # HDLC_ESCAPE
                       THEN StoreByte(d, dataByte)
                       ELSE d
                  ELSE [d EXCEPT !.inputFrameReceiving = FALSE,
                                 !.inputFrameDataIndex = 0]
    IN  [e EXCEPT !.lastDataByte = dataByte]

(* DecodeByte ending the session at a FLAG that follows a FLAG *)
DecodeByte_FlagPairEnds(d, dataByte) ==
    LET e ==
        IF ~d.inputFrameReceiving
        THEN IF dataByte = HDLC_FLAG THEN FrameStart(d) ELSE d
        ELSE IF dataByte = HDLC_FLAG
             THEN IF d.lastDataByte # HDLC_FLAG
                  THEN IF d.inputFrameDataIndex > 2
                       THEN [d EXCEPT !.inputFrameReceiving = FALSE,
                                      !.frameComplete = TRUE]
                       ELSE FrameStart(d)
                  ELSE [d EXCEPT !.inputFrameReceiving = FALSE]
             ELSE IF d.inputFrameDataIndex < EMBENET_BRT_MAX_FRAME_SIZE
                  THEN IF dataByte # HDLC_ESCAPE
                       THEN IF d.lastDataByte # HDLC_ESCAPE
                            THEN StoreByte(d, dataByte)
                            ELSE StoreByte(d, BitXor(dataByte, HDLC_ESCAPE_MASK))
                       ELSE d
                  ELSE [d EXCEPT !.inputFrameReceiving = FALSE,
                                 !.inputFrameDataIndex = 0]
    IN  [e EXCEPT !.lastDataByte = dataByte]

(* DecodeByte leaving the accumulator index as it is when it aborts a frame *)
DecodeByte_AbortKeepsIndex(d, dataByte) ==
    LET e ==
        IF ~d.inputFrameReceiving
        THEN IF dataByte = HDLC_FLAG THEN FrameStart(d) ELSE d
        ELSE IF dataByte = HDLC_FLAG
             THEN IF d.lastDataByte # HDLC_FLAG
                  THEN IF d.inputFrameDataIndex > 2
                       THEN [d EXCEPT !.inputFrameReceiving = FALSE,
                                      !.frameComplete = TRUE]
                       ELSE FrameStart(d)
                  ELSE FrameStart(d)
             ELSE IF d.inputFrameDataIndex < EMBENET_BRT_MAX_FRAME_SIZE
                  THEN IF dataByte # HDLC_ESCAPE
                       THEN IF d.lastDataByte # HDLC_ESCAPE
                            THEN StoreByte(d, dataByte)
                            ELSE StoreByte(d, BitXor(dataByte, HDLC_ESCAPE_MASK))
                       ELSE d
                  ELSE [d EXCEPT !.inputFrameReceiving = FALSE]
    IN  [e EXCEPT !.lastDataByte = dataByte]

(* DecodeByte completing a frame of two accumulated bytes *)
DecodeByte_ShortCompletes(d, dataByte) ==
    LET e ==
        IF ~d.inputFrameReceiving
        THEN IF dataByte = HDLC_FLAG THEN FrameStart(d) ELSE d
        ELSE IF dataByte = HDLC_FLAG
             THEN IF d.lastDataByte # HDLC_FLAG
                  THEN IF d.inputFrameDataIndex > 1
                       THEN [d EXCEPT !.inputFrameReceiving = FALSE,
                                      !.frameComplete = TRUE]
                       ELSE FrameStart(d)
                  ELSE FrameStart(d)
             ELSE IF d.inputFrameDataIndex < EMBENET_BRT_MAX_FRAME_SIZE
                  THEN IF dataByte # HDLC_ESCAPE
                       THEN IF d.lastDataByte # HDLC_ESCAPE
                            THEN StoreByte(d, dataByte)
                            ELSE StoreByte(d, BitXor(dataByte, HDLC_ESCAPE_MASK))
                       ELSE d
                  ELSE [d EXCEPT !.inputFrameReceiving = FALSE,
                                 !.inputFrameDataIndex = 0]
    IN  [e EXCEPT !.lastDataByte = dataByte]

(* DecodeByte storing the ESCAPE byte *)
DecodeByte_StoresEscape(d, dataByte) ==
    LET e ==
        IF ~d.inputFrameReceiving
        THEN IF dataByte = HDLC_FLAG THEN FrameStart(d) ELSE d
        ELSE IF dataByte = HDLC_FLAG
             THEN IF d.lastDataByte # HDLC_FLAG
                  THEN IF d.inputFrameDataIndex > 2
                       THEN [d EXCEPT !.inputFrameReceiving = FALSE,
                                      !.frameComplete = TRUE]
                       ELSE FrameStart(d)
                  ELSE FrameStart(d)
             ELSE IF d.inputFrameDataIndex < EMBENET_BRT_MAX_FRAME_SIZE
                  THEN IF dataByte # HDLC_ESCAPE
                       THEN IF d.lastDataByte # HDLC_ESCAPE
                            THEN StoreByte(d, dataByte)
                            ELSE StoreByte(d, BitXor(dataByte, HDLC_ESCAPE_MASK))
                       ELSE StoreByte(d, dataByte)
                  ELSE [d EXCEPT !.inputFrameReceiving = FALSE,
                                 !.inputFrameDataIndex = 0]
    IN  [e EXCEPT !.lastDataByte = dataByte]

(* One iteration of the while loop of EMBENET_BRT_Receive, after the pop *)
DecodeByte(d, dataByte) ==
    LET e ==
        IF ~d.inputFrameReceiving
        THEN IF dataByte = HDLC_FLAG THEN FrameStart(d) ELSE d
        ELSE IF dataByte = HDLC_FLAG
             THEN IF d.lastDataByte # HDLC_FLAG
                  THEN IF d.inputFrameDataIndex > 2
                       THEN [d EXCEPT !.inputFrameReceiving = FALSE,
                                      !.frameComplete = TRUE]
                       ELSE FrameStart(d)
                  ELSE FrameStart(d)
             ELSE IF d.inputFrameDataIndex < EMBENET_BRT_MAX_FRAME_SIZE
                  THEN IF dataByte # HDLC_ESCAPE
                       THEN IF d.lastDataByte # HDLC_ESCAPE
                            THEN StoreByte(d, dataByte)
                            ELSE StoreByte(d, BitXor(dataByte, HDLC_ESCAPE_MASK))
                       ELSE d
                  ELSE [d EXCEPT !.inputFrameReceiving = FALSE,
                                 !.inputFrameDataIndex = 0]
    IN  [e EXCEPT !.lastDataByte = dataByte]

(* One pass of the while loop of EMBENET_BRT_Receive over the queued byte *)
(* dataByte: the condition (the byte is there, frameComplete == false),    *)
(* the pop and the body.  s = [d, popped]                                  *)
(* ReceiveStep going on after a frame has been completed, dropping it *)
ReceiveStep_NoStop(s, dataByte) ==
    [d |-> DecodeByte([s.d EXCEPT !.frameComplete = FALSE], dataByte),
     popped |-> s.popped + 1]

ReceiveStep(s, dataByte) ==
    IF ~s.d.frameComplete
    THEN [d |-> DecodeByte(s.d, dataByte), popped |-> s.popped + 1]
    ELSE s

(* The while loop of EMBENET_BRT_Receive over queue[from .. to], in queue  *)
(* order (the range is halved to keep the evaluation shallow)              *)
RECURSIVE ReceiveLoop(_, _, _, _)
ReceiveLoop(s, queue, from, to) ==
    IF from > to THEN s
    ELSE IF from = to THEN ReceiveStep(s, queue[from])
    ELSE LET mid == (from + to) \div 2
             left == ReceiveLoop(s, queue, from, mid)
         IN  Force(left, ReceiveLoop(left, queue, mid + 1, to))

(* crc folded over inputFrame[from .. to] (indices from 1) *)
RECURSIVE CrcLoop(_, _, _, _)
CrcLoop(crc, frame, from, to) ==
    IF from > to THEN crc
    ELSE IF from = to THEN openhdlc_crc(crc, frame[from])
    ELSE LET mid == (from + to) \div 2
             left == CrcLoop(crc, frame, from, mid)
         IN  Force(left, CrcLoop(left, frame, mid + 1, to))

memcpy(dst, src, n) ==
    [i \in 1..Len(dst) |-> IF i <= n THEN src[i] ELSE dst[i]]

(* The two stored CRC bytes equal crc, high byte first *)
CrcMatches_HighFirst(d, crc) ==
    /\ (crc \div 256) % 256 = d.inputFrame[d.inputFrameDataIndex - 1]
    /\ crc % 256 = d.inputFrame[d.inputFrameDataIndex]

(* The two stored CRC bytes equal crc, low byte first *)
CrcMatches(d, crc) ==
    /\ crc % 256 = d.inputFrame[d.inputFrameDataIndex - 1]
    /\ (crc \div 256) % 256 = d.inputFrame[d.inputFrameDataIndex]

(* The CRC-OK branch: restart, copy and return value *)
Deliver(d, buffer, packetBufferSize) ==
    LET returnSize == d.inputFrameDataIndex - 2
    IN  IF packetBufferSize >= returnSize
        THEN [d |-> FrameStart(d), checked |-> TRUE, valid |-> returnSize,
              buffer |-> memcpy(buffer, d.inputFrame, returnSize),
              ret |-> returnSize]
        ELSE [d |-> FrameStart(d), checked |-> TRUE, valid |-> returnSize,
              buffer |-> memcpy(buffer, d.inputFrame, packetBufferSize),
              ret |-> 0]

(* The frame-malformed branch leaving the decoder as the closing FLAG *)
(* left it: not receiving                                            *)
Reject_Idle(d, buffer) ==
    [d |-> d, checked |-> TRUE, valid |-> -1, buffer |-> buffer, ret |-> 0]

(* The frame-malformed branch *)
Reject(d, buffer) ==
    [d |-> FrameStart(d), checked |-> TRUE, valid |-> -1, buffer |-> buffer,
     ret |-> 0]

(* No frame completed in this call *)
NoFrame(d, buffer) ==
    [d |-> d, checked |-> FALSE, valid |-> -1, buffer |-> buffer, ret |-> 0]

(* ReceiveFrame delivering the completed frame without comparing the CRC *)
ReceiveFrame_NoCrcCheck(d, buffer, packetBufferSize) ==
    IF d.frameComplete /\ d.inputFrameDataIndex > 0
    THEN Deliver(d, buffer, packetBufferSize)
    ELSE NoFrame(d, buffer)

(* ReceiveFrame comparing the low CRC byte only *)
ReceiveFrame_LowCrcOnly(d, buffer, packetBufferSize) ==
    IF d.frameComplete /\ d.inputFrameDataIndex > 0
    THEN LET crc == Not16(CrcLoop(HDLC_CRCINIT, d.inputFrame, 1,
                                  d.inputFrameDataIndex - 2))
         IN  IF crc % 256 = d.inputFrame[d.inputFrameDataIndex - 1]
             THEN Deliver(d, buffer, packetBufferSize)
             ELSE Reject(d, buffer)
    ELSE NoFrame(d, buffer)

(* ReceiveFrame restarting the session when no frame was completed *)
ReceiveFrame_ResetWhenIdle(d, buffer, packetBufferSize) ==
    IF d.frameComplete /\ d.inputFrameDataIndex > 0
    THEN LET crc == Not16(CrcLoop(HDLC_CRCINIT, d.inputFrame, 1,
                                  d.inputFrameDataIndex - 2))
         IN  IF CrcMatches(d, crc)
             THEN Deliver(d, buffer, packetBufferSize)
             ELSE Reject(d, buffer)
    ELSE [d |-> FrameStart(d), checked |-> FALSE, valid |-> -1,
          buffer |-> buffer, ret |-> 0]

(* EMBENET_BRT_Receive after the loop: CRC check, copy and return value.   *)
(* checked: the CRC was compared; valid: the payload length of a CRC-valid *)
(* frame, else -1                                                          *)
ReceiveFrame(d, buffer, packetBufferSize) ==
    IF d.frameComplete /\ d.inputFrameDataIndex > 0
    THEN LET crc == Not16(CrcLoop(HDLC_CRCINIT, d.inputFrame, 1,
                                  d.inputFrameDataIndex - 2))
         IN  IF CrcMatches(d, crc)
             THEN Deliver(d, buffer, packetBufferSize)
             ELSE Reject(d, buffer)
    ELSE NoFrame(d, buffer)

(* The decoder session with lastDataByte a local of the call *)
DecoderState_LocalLast ==
    [inputFrame |-> inputFrame, inputFrameDataIndex |-> inputFrameDataIndex,
     inputFrameReceiving |-> inputFrameReceiving, lastDataByte |-> 0,
     frameComplete |-> FALSE]

DecoderState ==
    [inputFrame |-> inputFrame, inputFrameDataIndex |-> inputFrameDataIndex,
     inputFrameReceiving |-> inputFrameReceiving, lastDataByte |-> lastDataByte,
     frameComplete |-> FALSE]

(***************************************************************************)
(* Bounds of the model and the inputs drawn                                *)
(***************************************************************************)
MaxPayloadLen == 2

MaxSends == 2

MaxStream == 5

MaxPasses == 8

(* Payload bytes: a plain byte, FLAG, ESCAPE, and 0x2A, the one-byte       *)
(* payload whose CRC is 0x7E20 (its high CRC byte needs stuffing)          *)
PayloadBytes == {1, 42, HDLC_FLAG, HDLC_ESCAPE}

RECURSIVE SeqsUpTo(_, _)
SeqsUpTo(S, n) ==
    IF n = 0 THEN {<< >>}
    ELSE LET shorter == SeqsUpTo(S, n - 1)
         IN  shorter \cup {Append(s, x) : s \in {r \in shorter : Len(r) = n - 1}, x \in S}

ExamplePayload == <<1, 126, 125, 2>>

(* 0x19: its CRC is 0x7D38 (the high CRC byte is ESCAPE) *)
ShortPayloads ==
    (SeqsUpTo(PayloadBytes, MaxPayloadLen) \ {<< >>}) \cup {ExamplePayload, <<25>>}

BurstPayloads == {<<1>>, <<HDLC_FLAG, HDLC_ESCAPE>>}

(* A payload of the largest length a frame can carry, FLAG first *)
LongPayloads ==
    {[i \in 1..(EMBENET_BRT_MAX_FRAME_SIZE - 2) |-> IF i = 1 THEN HDLC_FLAG ELSE 1]}

Pool(mode) ==
    CASE mode = "short" -> ShortPayloads
      [] mode = "burst" -> BurstPayloads
      [] mode = "long"  -> LongPayloads
      [] OTHER -> {}

Max(a, b) == IF a >= b THEN a ELSE b

Min(a, b) == IF a <= b THEN a ELSE b

(* packetBufferSize values a caller passes for a buffer of n bytes *)
Capacities(n) == {1, n}

(* What a call did: idle counts the calls in a row made on an empty queue *)
(* (up to 2), ret is the value returned, cap the packetBufferSize passed,   *)
(* checked and valid are those of ReceiveFrame                              *)
NoCall ==
    [called |-> FALSE, idle |-> 0, ret |-> 0, cap |-> 0, valid |-> -1,
     checked |-> FALSE]

(* No EMBENET_BRT_Receive call is running *)
NoRun == [pc |-> "idle", frameComplete |-> FALSE, cap |-> 0, passes |-> 0]

(* The UART BSP after EMBENET_NODE_BSP_UART_Init: callbacks bound and *)
(* interrupts enabled                                                 *)
UartBound == [txCb |-> TRUE, rxCb |-> TRUE, irq |-> TRUE]

(* The UART BSP before EMBENET_NODE_BSP_UART_Init: statics are zero *)
UartReset == [txCb |-> FALSE, rxCb |-> FALSE, irq |-> FALSE]

(* The radio driver after EMBENET_RADIO_LockHfxo, called by           *)
(* EMBENET_NODE_BSP_UART_Init: the HFXO runs and is locked; requested  *)
(* tells that the lock has been asked for and not given back            *)
RadioLocked ==
    [lockHfxo |-> TRUE, hfclk |-> TRUE, started |-> TRUE, requested |-> TRUE,
     state |-> "UNINITIALIZED", frame |-> [i \in 0..EMBENET_RADIO_MAX_PSDU_LENGTH |-> 0],
     status |-> "none", psduLen |-> 0]

(* The timer port after EMBENET_TIMER_Init *)
(* The RTC registers: counter, the OVERFLOW and COMPARE_0 events, the     *)
(* COMPARE0 interrupt enable, cc[0] and the pending bit of the timer IRQ; *)
(* the statics timerValueExtension and softwareIrq; the position (pc) and *)
(* local (now) of a running EMBENET_TIMER_ReadCounter.  ticks is the      *)
(* number of RTC ticks since the timer was started, sample its value at   *)
(* the last read of the counter, steps the number of advances of the RTC, *)
(* result the last value returned, lastNow and prevNow the values of now  *)
(* at the last two returns, reads their number (up to 2), set the outcome *)
(* of the last EMBENET_TIMER_SetCompare (due: the value of ticks at which *)
(* the counter reaches the compare value set), callbacks the number of    *)
(* invocations of the compare callback since that call (up to 2), early   *)
(* whether the last invocation came before the counter reached the        *)
(* compare value of an armed compare.                                     *)
TimerReset ==
    [counter |-> 0, overflow |-> FALSE, compare |-> FALSE, intCompare |-> FALSE,
     cc |-> 0, irqPending |-> FALSE, timerValueExtension |-> WideOf(0),
     softwareIrq |-> FALSE, pc |-> "idle", now |-> WideOf(0), ticks |-> 0,
     sample |-> 0, steps |-> 0, result |-> WideOf(0), lastNow |-> WideOf(0),
     prevNow |-> WideOf(0), reads |-> 0,
     set |-> [valid |-> FALSE, delta |-> WideOf(0), armed |-> FALSE, due |-> 0],
     callbacks |-> 0, early |-> FALSE]

(* No openhdlc_crc call made yet *)
NoCrc == [crc |-> HDLC_CRCINIT, byte |-> 0, out |-> HDLC_CRCINIT, steps |-> 0]

(* The inputs of a run: the payload pool and the number of sends, the      *)
(* polling stride (EMBENET_BRT_Receive is called when the number of bytes  *)
(* still on the line is a multiple of it), the packetBufferSize values the *)
(* caller passes, and for a prepared line the payload it carries and the   *)
(* bit flipped in its frame                                                *)
Inputs(mode, sends, poll, caps, payload, pos, bit) ==
    [mode |-> mode, sends |-> sends, poll |-> poll, caps |-> caps,
     payload |-> payload, pos |-> pos, bit |-> bit, primask |-> 0,
     radio |-> RadioLocked, timer |-> TimerReset, crcRun |-> NoCrc,
     uart |-> UartBound]

(* No send call started yet; no EMBENET_BRT_ReceiveRaw call made yet *)
NoSend == [kind |-> "none", data |-> << >>, calls |-> 0]

NoRaw == [called |-> FALSE, ret |-> 0, cap |-> 0, queue |-> << >>, buffer |-> << >>]

(***************************************************************************)
(* State after construction: zero-initialised statics, empty queues.       *)
(* The caller's buffer has bufferLen bytes, none of them a payload byte.   *)
(***************************************************************************)
InitState(line, bufferLen, in) ==
    /\ outputRingBuffer = RingBuffer_Init
    /\ inputRingBuffer = RingBuffer_Init
    /\ isTransmitting = FALSE
    /\ uartTx = << >>
    /\ txPending = 0
    /\ inputFrame = [i \in 1..EMBENET_BRT_MAX_FRAME_SIZE |-> 0]
    /\ inputFrameDataIndex = 0
    /\ inputFrameReceiving = FALSE
    /\ lastDataByte = 0
    /\ packetBuffer = [i \in 1..bufferLen |-> 255]
    /\ wire = line
    /\ written = << >>
    /\ sent = << >>
    /\ results = << >>
    /\ consumed = << >>
    /\ minCap = bufferLen
    /\ last = NoCall
    /\ input = in
    /\ txJob = << >>
    /\ passed = << >>
    /\ accepted = << >>
    /\ txCall = NoSend
    /\ raw = NoRaw
    /\ irqNestCounter = 0
    /\ previousIrqState = 0
    /\ irqState = 0
    /\ csJob = << >>
    /\ csFn = "none"
    /\ unguarded = {}
    /\ primask = in.primask
    /\ outerIrq = in.primask
    /\ uart = in.uart
    /\ initJob = << >>
    /\ lineAtReset = line
    /\ radio = in.radio
    /\ timer = in.timer
    /\ crcRun = in.crcRun
    /\ rxRun = NoRun

(***************************************************************************)
(* Actions                                                                 *)
(***************************************************************************)
(* EMBENET_BRT_Send(packet, Len(packet)); the line towards the decoder     *)
(* carries the bytes the call passed to uartWrite.                         *)
EMBENET_BRT_Send(packet) ==
    /\ Len(sent) < input.sends
    /\ LET t == SendFrame(TxState, packet)
       IN  /\ isTransmitting' = t.isTransmitting
           /\ outputRingBuffer' = t.ring
           /\ uartTx' = t.uart
           /\ txPending' = t.pending
           /\ written' = t.written
           /\ wire' = wire \o t.written
    /\ sent' = Append(sent, packet)
    /\ UNCHANGED <<inputRingBuffer, decoderVars, packetBuffer, results, consumed,
                   minCap, last, input,
                   txHist, raw, csVars, portVars>>

(* rx_isr: the UART received the next byte of the line *)
rx_isr ==
    /\ wire # << >>
    /\ LET rxByte == Head(wire)
       IN  inputRingBuffer' =
               RingBuffer_PutChar(inputRingBuffer, rxByte, INPUT_RING_BUFFER_SIZE)
    /\ wire' = Tail(wire)
    /\ UNCHANGED <<txVars, decoderVars, packetBuffer, written, sent, results,
                   consumed, minCap, last, input,
                   txHist, raw, csVars, portVars>>

(* size_t EMBENET_BRT_Receive(packetBuffer, packetBufferSize) *)
EMBENET_BRT_Receive(packetBufferSize) ==
    LET lp == ReceiveLoop([d |-> DecoderState, popped |-> 0], inputRingBuffer,
                          1, RingBuffer_GetLen(inputRingBuffer))
        r  == ReceiveFrame(lp.d, packetBuffer, packetBufferSize)
    IN  /\ inputRingBuffer' = SubSeq(inputRingBuffer, lp.popped + 1,
                                     Len(inputRingBuffer))
        /\ inputFrame' = r.d.inputFrame
        /\ inputFrameDataIndex' = r.d.inputFrameDataIndex
        /\ inputFrameReceiving' = r.d.inputFrameReceiving
        /\ lastDataByte' = r.d.lastDataByte
        /\ packetBuffer' = r.buffer
        /\ results' = IF r.ret > 0
                      THEN Append(results, SubSeq(r.buffer, 1, r.ret))
                      ELSE results
        /\ consumed' = consumed \o SubSeq(inputRingBuffer, 1, lp.popped)
        /\ minCap' = Min(minCap, packetBufferSize)
        /\ last' = [called |-> TRUE,
                    idle |-> IF inputRingBuffer = << >>
                             THEN Min(last.idle + 1, 2) ELSE 0,
                    ret |-> r.ret, cap |-> packetBufferSize, valid |-> r.valid,
                    checked |-> r.checked]
        /\ UNCHANGED <<txVars, wire, written, sent, input, txHist, raw, csVars, portVars>>

(* The main context polls with the stride drawn: at any time for stride 1, *)
(* once the whole line has been received for a stride longer than the line *)
Receive ==
    /\ Len(wire) % input.poll = 0
    /\ \E packetBufferSize \in input.caps :
           EMBENET_BRT_Receive(packetBufferSize)

Send == \E packet \in Pool(input.mode) : EMBENET_BRT_Send(packet)

(***************************************************************************)
(* Spec: payloads are sent, the line delivers what uartWrite was given,    *)
(* and the main context polls EMBENET_BRT_Receive at any time.             *)
(***************************************************************************)
MaxLen(S) == CHOOSE n \in {Len(s) : s \in S} : \A s \in S : Len(s) <= n

Init ==
    \E mode \in {"short", "burst", "long"} :
        InitState(<< >>, MaxLen(Pool(mode)),
                  Inputs(mode, IF mode = "burst" THEN MaxSends ELSE 1,
                         IF mode = "long" THEN INPUT_RING_BUFFER_SIZE ELSE 1,
                         Capacities(MaxLen(Pool(mode))), << >>, 0, 0))

Next == Send \/ rx_isr \/ Receive

Spec == Init /\ [][Next]_vars

(***************************************************************************)
(* Prepared lines: the bytes are on the line at the start, nothing is      *)
(* sent, rx_isr receives them and the main context polls.                  *)
(***************************************************************************)
NextLine == rx_isr \/ Receive

(* SpecFlip: the frame of a payload with one bit flipped between the       *)
(* delimiters.  01 F1 E1 7F ends in 0x7F, one bit away from FLAG, after    *)
(* the CRC bytes of 01; 07 F1 7F 01 has 0x7F one bit away from ESCAPE;     *)
(* 07 F1 7D has a stuffed byte after 07 F1.  The caller's buffer has room *)
(* for one byte more than the payload.                                     *)
FlipPayloads ==
    {p \in ShortPayloads : Len(p) = 1}
        \cup {<<1, 241, 225, 127>>, <<7, 241, 127, 1>>, <<7, 241, 125>>}

FlipBit(line, pos, bit) == [line EXCEPT ![pos] = BitXor(@, 2 ^ bit)]

InitFlip ==
    \E P \in FlipPayloads :
        \E pos \in 2..(Len(SendBytes(P)) - 1), bit \in 0..7 :
            InitState(FlipBit(SendBytes(P), pos, bit), Len(P) + 1,
                      Inputs("flip", 0, 1, {Len(P) + 1}, P, pos, bit))

SpecFlip == InitFlip /\ [][NextLine]_vars

(* SpecResync: a malformed frame, or one more FLAG, and then the frame of  *)
(* a payload.                                                              *)
Filler(n) == [i \in 1..n |-> 1]

Prefixes(kind) ==
    CASE kind = "crc"   -> {<<126, 1, 2, 3, 126>>, <<126, 1, 2, 3, 125, 126>>,
                            <<126, 1, 241, 224, 126>>}
      [] kind = "short" -> {<<126, 126>>, <<126, 1, 126>>, <<126, 1, 2, 126>>,
                            <<126, 125, 126>>}
      [] kind = "long"  -> {<<126>> \o Filler(EMBENET_BRT_MAX_FRAME_SIZE + 1) \o <<126>>,
                            <<126>> \o Filler(EMBENET_BRT_MAX_FRAME_SIZE + 3) \o <<126>>}
      [] kind = "flag"  -> {<<126>>}
      [] OTHER -> {}

ResyncPayloads == {p \in ShortPayloads : Len(p) = 1} \cup {ExamplePayload}

InitResync ==
    \E kind \in {"crc", "short", "long", "flag"} :
        \E prefix \in Prefixes(kind), P \in ResyncPayloads :
            InitState(prefix \o SendBytes(P), Len(P),
                      Inputs(kind, 0, IF kind = "long" THEN 101 ELSE 1,
                             Capacities(Len(P)), P, 0, 0))

SpecResync == InitResync /\ [][NextLine]_vars

(* SpecStream: any byte sequence of MaxStream bytes over FLAG, ESCAPE,     *)
(* 0x00 and 0xFF (7E FF 00 FF 7E is the frame of the payload FF), and      *)
(* lines with an escaped byte in a frame that passes the CRC check.        *)
StreamBytes == {HDLC_FLAG, HDLC_ESCAPE, 0, 255}

(* A frame with an ESCAPE put between its last byte and its closing FLAG *)
DanglingEscape(frame) ==
    SubSeq(frame, 1, Len(frame) - 1) \o <<HDLC_ESCAPE, HDLC_FLAG>>

SeedStreams ==
    {SendBytes(<<42>>) \o SendBytes(<<HDLC_ESCAPE>>),
     <<126, 125, 125, 33, 241, 225, 126>>,
     <<1, 126, 125, 94, 125, 126>> \o SendBytes(<<HDLC_FLAG, 1>>),
     DanglingEscape(SendBytes(<<42>>)) \o SendBytes(<<1>>)}

Streams ==
    {[i \in 1..MaxStream |-> b[i]] : b \in [1..MaxStream -> StreamBytes]} \cup SeedStreams

InitStream ==
    \E line \in Streams :
        InitState(line, 2, Inputs("stream", 0, 1, {2}, << >>, 0, 0))

SpecStream == InitStream /\ [][NextLine]_vars

(***************************************************************************)
(* Transmit pump: the main context passes the bytes of a send call to      *)
(* uartWrite one at a time, and the transmit-complete interrupt tx_isr     *)
(* runs in between.                                                        *)
(***************************************************************************)
(* RingBuffer_GetChar that pops the newest byte *)
RingBuffer_GetChar_Newest(rb) ==
    IF rb = << >>
    THEN [ok |-> FALSE, c |-> 0, rb |-> rb]
    ELSE [ok |-> TRUE, c |-> rb[Len(rb)], rb |-> SubSeq(rb, 1, Len(rb) - 1)]

(* bool RingBuffer_GetChar(rb, &c): pops the oldest byte if there is one *)
RingBuffer_GetChar(rb) ==
    IF rb = << >>
    THEN [ok |-> FALSE, c |-> 0, rb |-> rb]
    ELSE [ok |-> TRUE, c |-> Head(rb), rb |-> Tail(rb)]

(* tx_isr that marks the transmission idle after writing the popped byte *)
tx_isrOn_ClearsBusy(t) ==
    LET g == RingBuffer_GetChar(t.ring)
    IN  IF g.ok
        THEN [EMBENET_NODE_BSP_UART_WriteByte([t EXCEPT !.ring = g.rb], g.c)
                  EXCEPT !.isTransmitting = FALSE]
        ELSE [t EXCEPT !.isTransmitting = FALSE]

(* tx_isr that does not mark the transmission idle *)
tx_isrOn_StaysBusy(t) ==
    LET g == RingBuffer_GetChar(t.ring)
    IN  IF g.ok
        THEN EMBENET_NODE_BSP_UART_WriteByte([t EXCEPT !.ring = g.rb], g.c)
        ELSE t

(* The body of tx_isr on the transmit state t *)
tx_isrOn(t) ==
    LET g == RingBuffer_GetChar(t.ring)
    IN  IF g.ok
        THEN EMBENET_NODE_BSP_UART_WriteByte([t EXCEPT !.ring = g.rb], g.c)
        ELSE [t EXCEPT !.isTransmitting = FALSE]

(* bool EMBENET_BRT_IsBusy(void) *)
EMBENET_BRT_IsBusy == isTransmitting

(* The for loop of EMBENET_BRT_SendRaw over data[from .. to] *)
RECURSIVE SendRawLoop(_, _, _, _)
SendRawLoop(t, data, from, to) ==
    IF from > to THEN t
    ELSE IF from = to THEN uartWrite(t, data[from])
    ELSE LET mid == (from + to) \div 2
             left == SendRawLoop(t, data, from, mid)
         IN  Force(left, SendRawLoop(left, data, mid + 1, to))

(* EMBENET_BRT_SendRaw framing the data as EMBENET_BRT_Send does *)
SendRawFrame_Framed(t, data) == SendFrame(t, data)

(* EMBENET_BRT_SendRaw(data, dataLength) on the transmit state t *)
SendRawFrame(t, data) == SendRawLoop(t, data, 1, Len(data))

(* The bytes one EMBENET_BRT_SendRaw(data) call passes to uartWrite *)
SendRawBytes(data) ==
    SendRawFrame([isTransmitting |-> FALSE, ring |-> << >>, uart |-> << >>,
                  pending |-> 0, written |-> << >>], data).written

(* What the main context sends in a run *)
SendPool(mode) ==
    IF mode = "flood" THEN {<<HDLC_FLAG>>} ELSE BurstPayloads

(* In the run "flood" the first call passes more bytes than the outbound   *)
(* queue and the UART take; in the run "pump" the first call passes any    *)
(* sequence of FLAG, ESCAPE and 7 up to MaxPayloadLen bytes                *)
SendRawPool(mode) ==
    IF mode = "flood"
    THEN IF txCall.calls = 0 THEN {Filler(OUTPUT_RING_BUFFER_SIZE + 4)} ELSE {<<7>>}
    ELSE IF txCall.calls = 0
         THEN SeqsUpTo({HDLC_FLAG, HDLC_ESCAPE, 7}, MaxPayloadLen)
         ELSE {<<HDLC_FLAG, HDLC_ESCAPE>>, <<7>>}

(* The main context enters EMBENET_BRT_Send(packet) *)
CallSend(packet) ==
    /\ txJob = << >>
    /\ txCall.calls < input.sends
    /\ txJob' = SendBytes(packet)
    /\ txCall' = [kind |-> "Send", data |-> packet, calls |-> txCall.calls + 1]
    /\ written' = << >>
    /\ UNCHANGED <<txVars, inputRingBuffer, decoderVars, packetBuffer, wire, sent,
                   results, consumed, minCap, last, input, passed, accepted, raw,
                   csVars, portVars>>

(* The main context enters EMBENET_BRT_SendRaw(data) *)
CallSendRaw(data) ==
    /\ txJob = << >>
    /\ txCall.calls < input.sends
    /\ txJob' = SendRawBytes(data)
    /\ txCall' = [kind |-> "SendRaw", data |-> data, calls |-> txCall.calls + 1]
    /\ written' = << >>
    /\ UNCHANGED <<txVars, inputRingBuffer, decoderVars, packetBuffer, wire, sent,
                   results, consumed, minCap, last, input, passed, accepted, raw,
                   csVars, portVars>>

StartSend == \E packet \in SendPool(input.mode) : CallSend(packet)

StartSendRaw == \E data \in SendRawPool(input.mode) : CallSendRaw(data)

(* The running send call makes its next uartWrite(data) call *)
uartWriteCall ==
    /\ txJob # << >>
    /\ LET data == Head(txJob)
           t == uartWrite(TxState, data)
       IN  /\ isTransmitting' = t.isTransmitting
           /\ outputRingBuffer' = t.ring
           /\ uartTx' = t.uart
           /\ txPending' = t.pending
           /\ written' = written \o t.written
           /\ passed' = Append(passed, data)
           /\ accepted' = IF t.uart # uartTx \/ t.ring # outputRingBuffer
                          THEN Append(accepted, data)
                          ELSE accepted
    /\ txJob' = Tail(txJob)
    /\ UNCHANGED <<inputRingBuffer, decoderVars, packetBuffer, wire, sent, results,
                   consumed, minCap, last, input, txCall, raw, csVars, portVars>>

(* tx_isr: the UART has finished one byte.  It is served with interrupts   *)
(* enabled, between two uartWrite calls of the main context (for the       *)
(* stride drawn: when the number of bytes the call has still to pass is a  *)
(* multiple of it).                                                        *)
tx_isr ==
    /\ txPending > 0
    /\ primask = 0
    /\ Len(txJob) % input.poll = 0
    /\ LET t == tx_isrOn([TxState EXCEPT !.pending = @ - 1])
       IN  /\ isTransmitting' = t.isTransmitting
           /\ outputRingBuffer' = t.ring
           /\ uartTx' = t.uart
           /\ txPending' = t.pending
    /\ UNCHANGED <<inputRingBuffer, decoderVars, packetBuffer, wire, written, sent,
                   results, consumed, minCap, last, input, txHist, raw, csVars, portVars>>

NextTx == StartSend \/ StartSendRaw \/ uartWriteCall \/ tx_isr

(* SpecTx: up to MaxSends send calls; in the run "flood" the first bytes   *)
(* are passed faster than the UART sends one, so that the outbound queue   *)
(* overflows.                                                              *)
InitTx ==
    \E mode \in {"pump", "flood"} :
        InitState(<< >>, 1,
                  Inputs(mode, MaxSends,
                         IF mode = "flood" THEN INPUT_RING_BUFFER_SIZE ELSE 1,
                         {1}, << >>, 0, 0))

SpecTx == InitTx /\ [][NextTx]_vars

(* The UART finishes every byte written, and a running send call goes on *)
SpecTxFair == SpecTx /\ WF_vars(tx_isr) /\ WF_vars(uartWriteCall)

(***************************************************************************)
(* Critical section (embenet_critical_section.c).  c is the record         *)
(*   [irqNestCounter, previousIrqState, primask, irqState]                 *)
(* of the two statics, the interrupt mask and the local of Enter.          *)
(***************************************************************************)
MaxNest == 2

(* Enter, line 23: uint32_t irqState = __get_PRIMASK() *)
EnterRead(c) == [c EXCEPT !.irqState = c.primask]

(* Enter, lines 24-28: __disable_irq() and the nest counter *)
EnterDisable(c) ==
    [c EXCEPT !.primask = 1,
              !.previousIrqState = IF c.irqNestCounter = 0 THEN c.irqState ELSE @,
              !.irqNestCounter = @ + 1]

EMBENET_CRITICAL_SECTION_Enter(c) == EnterDisable(EnterRead(c))

(* Exit enabling interrupts whatever the nest counter is *)
EMBENET_CRITICAL_SECTION_Exit_NoNesting(c) ==
    LET n == IF c.irqNestCounter - 1 < 0 THEN 0 ELSE c.irqNestCounter - 1
    IN  [c EXCEPT !.irqNestCounter = n,
                  !.primask = IF c.previousIrqState = 0 THEN 0 ELSE @]

(* Exit enabling interrupts whatever the saved state is *)
EMBENET_CRITICAL_SECTION_Exit_NoRestore(c) ==
    LET n == IF c.irqNestCounter - 1 < 0 THEN 0 ELSE c.irqNestCounter - 1
    IN  [c EXCEPT !.irqNestCounter = n,
                  !.primask = IF n = 0 THEN 0 ELSE @]

(* void EMBENET_CRITICAL_SECTION_Exit(void) *)
EMBENET_CRITICAL_SECTION_Exit(c) ==
    LET n == IF c.irqNestCounter - 1 < 0 THEN 0 ELSE c.irqNestCounter - 1
    IN  [c EXCEPT !.irqNestCounter = n,
                  !.primask = IF n = 0 /\ c.previousIrqState = 0 THEN 0 ELSE @]

CsState ==
    [irqNestCounter |-> irqNestCounter, previousIrqState |-> previousIrqState,
     primask |-> primask, irqState |-> irqState]

(***************************************************************************)
(* The critical-section calls and queue accesses of each function of       *)
(* embenet_brt.c, in program order.                                        *)
(***************************************************************************)
Repeat(ops, n) == [i \in 1..(n * Len(ops)) |-> ops[((i - 1) % Len(ops)) + 1]]

(* uartWrite: the push is made when a transmission is in progress *)
uartWriteOps(busy) ==
    <<"Enter">> \o (IF busy THEN <<"PutChar">> ELSE << >>) \o <<"Exit">>

tx_isrOps == <<"Enter", "GetChar", "Exit">>

rx_isrOps == <<"Enter", "PutChar", "Exit">>

(* EMBENET_BRT_Receive popping n bytes: the loop condition, then the pop   *)
(* between Enter and Exit; the condition is evaluated once more at the end *)
ReceiveOps(n) ==
    Repeat(<<"GetLen", "Enter", "GetChar", "Exit">>, n) \o <<"GetLen">>

(* EMBENET_BRT_ReceiveRaw returning from its break without the Exit *)
ReceiveRawOps_BreakReturns(k) ==
    <<"Enter">> \o Repeat(<<"GetChar">>, k) \o (IF k = 2 THEN << >> ELSE <<"Exit">>)

(* EMBENET_BRT_ReceiveRaw making k RingBuffer_GetChar calls *)
ReceiveRawOps(k) == <<"Enter">> \o Repeat(<<"GetChar">>, k) \o <<"Exit">>

(* The functions the main context calls, with their operations *)
MainCalls ==
    {[fn |-> "uartWrite", ops |-> uartWriteOps(busy)] : busy \in BOOLEAN}
        \cup {[fn |-> "EMBENET_BRT_Receive", ops |-> ReceiveOps(n)] : n \in 0..2}
        \cup {[fn |-> "EMBENET_BRT_ReceiveRaw", ops |-> ReceiveRawOps(k)] : k \in 1..2}

IsrCalls ==
    {[fn |-> "tx_isr", ops |-> tx_isrOps], [fn |-> "rx_isr", ops |-> rx_isrOps]}

(* One operation op of function fn on s = [c, log]: log collects the queue *)
(* accesses made with the critical section not entered                     *)
CsOp(s, fn, op) ==
    CASE op = "Enter" -> [s EXCEPT !.c = EMBENET_CRITICAL_SECTION_Enter(s.c)]
      [] op = "Exit"  -> [s EXCEPT !.c = EMBENET_CRITICAL_SECTION_Exit(s.c)]
      [] OTHER -> IF s.c.irqNestCounter = 0
                  THEN [s EXCEPT !.log = @ \cup {[fn |-> fn, op |-> op]}]
                  ELSE s

RECURSIVE CsRun(_, _, _, _)
CsRun(s, fn, ops, i) ==
    IF i > Len(ops) THEN s ELSE CsRun(CsOp(s, fn, ops[i]), fn, ops, i + 1)

restVars ==
    <<outputRingBuffer, inputRingBuffer, isTransmitting, uartTx, txPending,
      inputFrame, inputFrameDataIndex, inputFrameReceiving, lastDataByte,
      packetBuffer, wire, written, sent, results, consumed, minCap, last, input,
      txJob, passed, accepted, txCall, raw>>

(* The main context calls a function, outside or inside a critical section *)
CallMain(call) ==
    /\ csJob = << >>
    /\ csJob' = call.ops
    /\ csFn' = call.fn
    /\ UNCHANGED <<irqNestCounter, previousIrqState, primask, irqState, unguarded,
                   outerIrq>>
    /\ UNCHANGED <<restVars, portVars>>

(* The caller enters a critical section of its own, or leaves it *)
CallEnter ==
    /\ csJob = << >>
    /\ irqNestCounter < MaxNest
    /\ csJob' = <<"Enter">>
    /\ csFn' = "caller"
    /\ UNCHANGED <<irqNestCounter, previousIrqState, primask, irqState, unguarded,
                   outerIrq>>
    /\ UNCHANGED <<restVars, portVars>>

CallExit ==
    /\ csJob = << >>
    /\ irqNestCounter > 0
    /\ csJob' = <<"Exit">>
    /\ csFn' = "caller"
    /\ UNCHANGED <<irqNestCounter, previousIrqState, primask, irqState, unguarded,
                   outerIrq>>
    /\ UNCHANGED <<restVars, portVars>>

(* The main context executes its next operation; an interrupt can be       *)
(* served between the two steps of Enter.                                  *)
MainStep ==
    /\ csJob # << >>
    /\ LET op == Head(csJob)
       IN  IF op = "Enter"
           THEN LET c == EnterRead(CsState)
                IN  /\ irqState' = c.irqState
                    /\ outerIrq' = IF irqNestCounter = 0 THEN primask ELSE outerIrq
                    /\ csJob' = <<"EnterDisable">> \o Tail(csJob)
                    /\ UNCHANGED <<irqNestCounter, previousIrqState, primask,
                                   unguarded>>
           ELSE LET s == IF op = "EnterDisable"
                         THEN [c |-> EnterDisable(CsState), log |-> unguarded]
                         ELSE CsOp([c |-> CsState, log |-> unguarded], csFn, op)
                IN  /\ irqNestCounter' = s.c.irqNestCounter
                    /\ previousIrqState' = s.c.previousIrqState
                    /\ primask' = s.c.primask
                    /\ irqState' = s.c.irqState
                    /\ unguarded' = s.log
                    /\ csJob' = Tail(csJob)
                    /\ UNCHANGED outerIrq
    /\ UNCHANGED <<csFn, restVars, portVars>>

(* An interrupt handler runs to its end while interrupts are enabled; the  *)
(* local of its Enter is its own                                           *)
Isr(call) ==
    /\ primask = 0
    /\ LET s == CsRun([c |-> CsState, log |-> unguarded], call.fn, call.ops, 1)
       IN  /\ irqNestCounter' = s.c.irqNestCounter
           /\ previousIrqState' = s.c.previousIrqState
           /\ primask' = s.c.primask
           /\ unguarded' = s.log
    /\ UNCHANGED <<irqState, csJob, csFn, outerIrq, restVars, portVars>>

StartCall == \E call \in MainCalls : CallMain(call)

Interrupt == \E call \in IsrCalls : Isr(call)

NextCS == StartCall \/ CallEnter \/ CallExit \/ MainStep \/ Interrupt

(* SpecCS: interrupts enabled or disabled at the start *)
InitCS ==
    \E mask \in {0, 1} :
        InitState(<< >>, 1, [Inputs("cs", 0, 1, {1}, << >>, 0, 0) EXCEPT !.primask = mask])

SpecCS == InitCS /\ [][NextCS]_vars

(***************************************************************************)
(* Raw receive path.                                                       *)
(***************************************************************************)
(* The while loop of EMBENET_BRT_ReceiveRaw on s = [rb, buffer, n]: the    *)
(* pop writes to data[n] before n is compared with dataBufferSize          *)
RECURSIVE ReceiveRawLoop(_, _)
ReceiveRawLoop(s, dataBufferSize) ==
    LET g == RingBuffer_GetChar(s.rb)
    IN  IF ~g.ok THEN s
        ELSE LET w == [rb |-> g.rb,
                       buffer |-> [s.buffer EXCEPT ![s.n + 1] = g.c],
                       n |-> s.n + 1]
             IN  IF w.n >= dataBufferSize THEN w
                 ELSE ReceiveRawLoop(w, dataBufferSize)

(* size_t EMBENET_BRT_ReceiveRaw(data, dataBufferSize) *)
EMBENET_BRT_ReceiveRaw(dataBufferSize) ==
    LET s == ReceiveRawLoop([rb |-> inputRingBuffer, buffer |-> packetBuffer, n |-> 0],
                            dataBufferSize)
    IN  /\ inputRingBuffer' = s.rb
        /\ packetBuffer' = s.buffer
        /\ raw' = [called |-> TRUE, ret |-> s.n, cap |-> dataBufferSize,
                   queue |-> inputRingBuffer, buffer |-> packetBuffer]
        /\ consumed' = consumed \o SubSeq(inputRingBuffer, 1, s.n)
        /\ UNCHANGED <<txVars, decoderVars, wire, written, sent, results,
                       minCap, last, input, txHist, csVars, portVars>>

(* The caller passes a buffer of MaxPayloadLen + 1 bytes and a capacity up *)
(* to its size                                                             *)
ReceiveRaw == \E dataBufferSize \in input.caps : EMBENET_BRT_ReceiveRaw(dataBufferSize)

NextRaw == rx_isr \/ ReceiveRaw

RawLines == SeqsUpTo({HDLC_FLAG, HDLC_ESCAPE, 7}, MaxPayloadLen + 1) \ {<< >>}

InitRaw ==
    \E line \in RawLines :
        InitState(line, MaxPayloadLen + 1,
                  Inputs("raw", 0, 1, 0..(MaxPayloadLen + 1), << >>, 0, 0))

SpecRaw == InitRaw /\ [][NextRaw]_vars

(***************************************************************************)
(* SpecMax: lines around the size limit of the accumulator: a frame of     *)
(* more than EMBENET_BRT_MAX_FRAME_SIZE unstuffed bytes followed by the    *)
(* frame of the payload 42, and the frame of a payload of                  *)
(* EMBENET_BRT_MAX_FRAME_SIZE - 2 bytes.                                   *)
(***************************************************************************)
InitMax ==
    \/ \E prefix \in Prefixes("long") :
           InitState(prefix \o SendBytes(<<42>>), 1,
                     Inputs("over", 0, 1, {1}, <<42>>, 0, 0))
    \/ \E P \in LongPayloads :
           InitState(SendBytes(P), Len(P), Inputs("max", 0, 1, {Len(P)}, P, 0, 0))

(* The main context starts to poll when more than EMBENET_BRT_MAX_FRAME_SIZE *)
(* bytes have arrived, and polls at any time from then on                   *)
ReceiveLate ==
    /\ Len(consumed) + Len(inputRingBuffer) > EMBENET_BRT_MAX_FRAME_SIZE
    /\ \E packetBufferSize \in input.caps : EMBENET_BRT_Receive(packetBufferSize)

NextMax == rx_isr \/ ReceiveLate

SpecMax == InitMax /\ [][NextMax]_vars

(***************************************************************************)
(* EMBENET_BRT_Init / EMBENET_BRT_Deinit and the UART BSP.  The two calls  *)
(* are made by the main context and run statement by statement; the UART   *)
(* interrupt is served between the statements while it is enabled.         *)
(***************************************************************************)
(* The statements of EMBENET_BRT_Init, lines 100-105 *)
InitSteps ==
    <<"RingBuffer_Init(input)", "RingBuffer_Init(output)", "isTransmitting",
      "EMBENET_NODE_BSP_UART_Init">>

(* The statements of EMBENET_BRT_Deinit, lines 111-115 *)
DeinitSteps ==
    <<"EMBENET_NODE_BSP_UART_Deinit", "isTransmitting", "RingBuffer_Init(input)",
      "RingBuffer_Init(output)">>

(* void EMBENET_RADIO_LockHfxo(void) *)
EMBENET_RADIO_LockHfxo(r) ==
    [r EXCEPT !.hfclk = TRUE, !.started = TRUE, !.lockHfxo = TRUE,
              !.requested = TRUE]

(* void EMBENET_RADIO_UnlockHfxo(void) *)
EMBENET_RADIO_UnlockHfxo(r) ==
    [r EXCEPT !.lockHfxo = FALSE, !.requested = FALSE]

(* EMBENET_NODE_BSP_UART_Init with the callbacks left unbound *)
EMBENET_NODE_BSP_UART_Init_NoCallbacks(u) == [u EXCEPT !.irq = TRUE]

(* EMBENET_NODE_BSP_UART_Init(tx_isr, rx_isr, NULL) *)
EMBENET_NODE_BSP_UART_Init(u) == [txCb |-> TRUE, rxCb |-> TRUE, irq |-> TRUE]

(* void EMBENET_NODE_BSP_UART_Deinit(void) *)
EMBENET_NODE_BSP_UART_Deinit(u) == [txCb |-> FALSE, rxCb |-> FALSE, irq |-> FALSE]

(* The main context calls EMBENET_BRT_Init or EMBENET_BRT_Deinit between  *)
(* two send calls                                                         *)
CallInit ==
    /\ initJob = << >>
    /\ txJob = << >>
    /\ initJob' \in {InitSteps, DeinitSteps}
    /\ UNCHANGED <<restVars, csVars, uart, lineAtReset, devVars, rxRun>>

(* The running call executes its next statement.  EMBENET_NODE_BSP_UART_Init *)
(* clears the TXDRDY event: a transmit-complete notification that was        *)
(* pending is lost, one that is still to come is not.                        *)
InitStep ==
    /\ initJob # << >>
    /\ initJob' = Tail(initJob)
    /\ LET step == Head(initJob)
       IN  /\ inputRingBuffer' = IF step = "RingBuffer_Init(input)"
                                 THEN RingBuffer_Init ELSE inputRingBuffer
           /\ lineAtReset' = IF step = "RingBuffer_Init(input)" THEN wire ELSE lineAtReset
           /\ outputRingBuffer' = IF step = "RingBuffer_Init(output)"
                                  THEN RingBuffer_Init ELSE outputRingBuffer
           /\ isTransmitting' = IF step = "isTransmitting" THEN FALSE ELSE isTransmitting
           /\ uart' = CASE step = "EMBENET_NODE_BSP_UART_Init" -> EMBENET_NODE_BSP_UART_Init(uart)
                        [] step = "EMBENET_NODE_BSP_UART_Deinit" -> EMBENET_NODE_BSP_UART_Deinit(uart)
                        [] OTHER -> uart
           /\ radio' = CASE step = "EMBENET_NODE_BSP_UART_Init" -> EMBENET_RADIO_LockHfxo(radio)
                         [] step = "EMBENET_NODE_BSP_UART_Deinit" -> EMBENET_RADIO_UnlockHfxo(radio)
                         [] OTHER -> radio
           /\ IF step = "EMBENET_NODE_BSP_UART_Init"
              THEN txPending' \in {0, txPending}
              ELSE txPending' = txPending
    /\ UNCHANGED <<uartTx, decoderVars, packetBuffer, wire, written, sent, results,
                   consumed, minCap, last, input, txHist, raw, csVars, timer, rxRun, crcRun>>

(* UARTE0_UART0_IRQHandler on RXDRDY: the callback if it is bound *)
UartRxIrq ==
    /\ uart.irq
    /\ IF uart.rxCb
       THEN rx_isr
       ELSE /\ wire # << >>
            /\ wire' = Tail(wire)
            /\ UNCHANGED <<txVars, inputRingBuffer, decoderVars, packetBuffer, written,
                           sent, results, consumed, minCap, last, input, txHist, raw,
                           csVars, portVars>>

(* UARTE0_UART0_IRQHandler on TXDRDY: the callback if it is bound *)
UartTxIrq ==
    /\ uart.irq
    /\ IF uart.txCb
       THEN tx_isr
       ELSE /\ txPending > 0
            /\ txPending' = txPending - 1
            /\ UNCHANGED <<outputRingBuffer, isTransmitting, uartTx, inputRingBuffer,
                           decoderVars, packetBuffer, wire, written, sent, results,
                           consumed, minCap, last, input, txHist, raw, csVars, portVars>>

(* The main context starts a send call while the transport is initialised *)
MainSend ==
    /\ initJob = << >>
    /\ uart.irq
    /\ StartSend \/ StartSendRaw

NextInit == CallInit \/ InitStep \/ UartRxIrq \/ UartTxIrq \/ MainSend \/ uartWriteCall

(* SpecInit: two bytes arrive on the line, one send call is made *)
InitInit ==
    \E line \in {<<7, HDLC_FLAG>>} :
        InitState(line, 1, Inputs("init", 1, 1, {1}, << >>, 0, 0))

SpecInit == InitInit /\ [][NextInit]_vars

(***************************************************************************)
(* EMBENET_BRT_Receive statement by statement: the loop condition (line    *)
(* 147), one pass of the loop (lines 148-193), and the validation after    *)
(* the loop (lines 196-227).  rx_isr can run between them.                 *)
(***************************************************************************)
(* The main context calls EMBENET_BRT_Receive(packetBuffer, packetBufferSize) *)
ReceiveCall ==
    /\ input.mode = "poll"
    /\ rxRun.pc = "idle"
    /\ \E packetBufferSize \in input.caps :
           rxRun' = [pc |-> "while", frameComplete |-> FALSE,
                     cap |-> packetBufferSize, passes |-> 0]
    /\ UNCHANGED <<restVars, csVars, bspVars, devVars>>

(* Line 147: the loop goes on while the queue is not empty and no frame is *)
(* complete; otherwise lines 196-227 run and the call returns              *)
ReceiveWhile ==
    /\ rxRun.pc = "while"
    /\ IF RingBuffer_GetLen(inputRingBuffer) > 0 /\ ~rxRun.frameComplete
       THEN /\ rxRun' = [rxRun EXCEPT !.pc = "pop"]
            /\ UNCHANGED <<decoderVars, packetBuffer, results, minCap, last>>
       ELSE LET r == ReceiveFrame([DecoderState EXCEPT !.frameComplete = rxRun.frameComplete],
                                  packetBuffer, rxRun.cap)
            IN  /\ inputFrame' = r.d.inputFrame
                /\ inputFrameDataIndex' = r.d.inputFrameDataIndex
                /\ inputFrameReceiving' = r.d.inputFrameReceiving
                /\ lastDataByte' = r.d.lastDataByte
                /\ packetBuffer' = r.buffer
                /\ results' = IF r.ret > 0
                              THEN Append(results, SubSeq(r.buffer, 1, r.ret))
                              ELSE results
                /\ minCap' = Min(minCap, rxRun.cap)
                /\ last' = [called |-> TRUE,
                            idle |-> IF rxRun.passes = 0
                                     THEN Min(last.idle + 1, 2) ELSE 0,
                            ret |-> r.ret, cap |-> rxRun.cap, valid |-> r.valid,
                            checked |-> r.checked]
                /\ rxRun' = [rxRun EXCEPT !.pc = "idle"]
    /\ UNCHANGED <<txVars, inputRingBuffer, wire, written, sent, consumed, input,
                   txHist, raw, csVars, bspVars, devVars>>

(* Lines 148-193: the pop between Enter and Exit and the decoding of the byte *)
ReceivePop ==
    /\ rxRun.pc = "pop"
    /\ LET g == RingBuffer_GetChar(inputRingBuffer)
           s == ReceiveStep([d |-> DecoderState, popped |-> 0], g.c)
       IN  /\ inputRingBuffer' = g.rb
           /\ inputFrame' = s.d.inputFrame
           /\ inputFrameDataIndex' = s.d.inputFrameDataIndex
           /\ inputFrameReceiving' = s.d.inputFrameReceiving
           /\ lastDataByte' = s.d.lastDataByte
           /\ consumed' = IF g.ok THEN Append(consumed, g.c) ELSE consumed
           /\ rxRun' = [rxRun EXCEPT !.pc = "while",
                                     !.frameComplete = s.d.frameComplete,
                                     !.passes = Min(@ + 1, MaxPasses)]
    /\ UNCHANGED <<txVars, packetBuffer, wire, written, sent, results, minCap, last,
                   input, txHist, raw, csVars, bspVars, devVars>>

(* The main context starts a send call when no receive call is running *)
PollSend ==
    /\ rxRun.pc = "idle"
    /\ StartSend \/ StartSendRaw

NextPoll ==
    rx_isr \/ ReceiveCall \/ ReceiveWhile \/ ReceivePop \/ PollSend \/ uartWriteCall
        \/ tx_isr

PollLines ==
    {SendBytes(<<42>>), <<7, HDLC_FLAG, HDLC_FLAG>>, <<HDLC_FLAG, 1, 241, 225>>}

(* SpecPoll: a run that polls a line, or a run that sends (modes of SpecTx) *)
InitPoll ==
    \/ \E line \in PollLines :
           InitState(line, 1, Inputs("poll", 0, 1, {1}, << >>, 0, 0))
    \/ InitTx

SpecPoll == InitPoll /\ [][NextPoll]_vars

(* The main context goes on with the call it is in; nothing is assumed of *)
(* rx_isr and tx_isr                                                      *)
SpecPollFair ==
    SpecPoll /\ WF_vars(ReceiveWhile) /\ WF_vars(ReceivePop) /\ WF_vars(uartWriteCall)

(***************************************************************************)
(* SpecCrc: openhdlc_crc applied to an accumulator drawn from CrcSeeds and *)
(* any byte.                                                               *)
(***************************************************************************)
MaxCrcSeed == 15

CrcSeeds ==
    {(k * 4369) % 65536 : k \in 0..MaxCrcSeed} \cup {HDLC_CRCINIT, HDLC_CRCGOOD, 33800}

(* The result of one call is the accumulator of the next, as in the loops *)
(* of EMBENET_BRT_Send and EMBENET_BRT_Receive.                           *)
openhdlc_crcCall ==
    /\ crcRun.steps < 2
    /\ \E byte \in (IF crcRun.steps = 0 THEN Byte ELSE {0, HDLC_FLAG}) :
           crcRun' = [crc |-> crcRun.out, byte |-> byte,
                      out |-> openhdlc_crc(crcRun.out, byte),
                      steps |-> crcRun.steps + 1]
    /\ UNCHANGED <<restVars, csVars, bspVars, radio, timer, rxRun>>

NextCrc == openhdlc_crcCall

InitCrc ==
    \E crc \in CrcSeeds :
        InitState(<< >>, 1,
                  [Inputs("crc", 0, 1, {1}, << >>, 0, 0)
                      EXCEPT !.crcRun = [crc |-> crc, byte |-> 0, out |-> crc, steps |-> 0]])

SpecCrc == InitCrc /\ [][NextCrc]_vars

(***************************************************************************)
(* The radio driver (embenet_radio.c) and the HFXO it shares with the      *)
(* UART.  hfclk tells whether the HFXO runs, started is the HFCLKSTARTED   *)
(* event; the start-up time of the oscillator is not modelled: the event   *)
(* is set as soon as HFCLKSTART is triggered.                              *)
(***************************************************************************)
MaxPsduFill == 2

(* psduLen arguments of EMBENET_RADIO_TxEnable *)
PsduLens ==
    {0, EMBENET_RADIO_MIN_PSDU_LENGTH, 2, EMBENET_RADIO_MAX_PSDU_LENGTH - 1,
     EMBENET_RADIO_MAX_PSDU_LENGTH, EMBENET_RADIO_MAX_PSDU_LENGTH + 1, 300}

(* The radio driver before any call: statics are zero, the HFXO is off *)
RadioReset ==
    [lockHfxo |-> FALSE, hfclk |-> FALSE, started |-> FALSE, requested |-> FALSE,
     state |-> "UNINITIALIZED", frame |-> [i \in 0..EMBENET_RADIO_MAX_PSDU_LENGTH |-> 0],
     status |-> "none", psduLen |-> 0]

hfclkTurnOn(r) == [r EXCEPT !.hfclk = TRUE, !.started = TRUE]

hfclkTurnOff(r) == [r EXCEPT !.hfclk = FALSE]

(* void EMBENET_RADIO_Deinit(void) *)
EMBENET_RADIO_Deinit(r) ==
    [r EXCEPT !.lockHfxo = FALSE, !.state = "UNINITIALIZED"]

(* EMBENET_RADIO_Status EMBENET_RADIO_Init(void) *)
EMBENET_RADIO_Init(r) ==
    [EMBENET_RADIO_Deinit(r) EXCEPT !.state = "IDLE",
                                    !.status = "EMBENET_RADIO_STATUS_SUCCESS"]

(* EMBENET_RADIO_Status EMBENET_RADIO_Idle(void) *)
EMBENET_RADIO_Idle(r) ==
    [(IF ~r.lockHfxo THEN hfclkTurnOff(r) ELSE r)
        EXCEPT !.state = "IDLE", !.status = "EMBENET_RADIO_STATUS_SUCCESS"]

(* EMBENET_RADIO_Status EMBENET_RADIO_TxEnable(channel, txp, psdu, psduLen) *)
EMBENET_RADIO_TxEnable(r, psdu, psduLen) ==
    LET on == [(IF ~r.lockHfxo THEN hfclkTurnOn(r) ELSE r) EXCEPT !.psduLen = psduLen]
        len == IF psduLen > EMBENET_RADIO_MAX_PSDU_LENGTH
               THEN EMBENET_RADIO_MAX_PSDU_LENGTH ELSE psduLen
    IN  IF len < EMBENET_RADIO_MIN_PSDU_LENGTH
        THEN [on EXCEPT !.status = "EMBENET_RADIO_STATUS_GENERAL_ERROR"]
        ELSE [on EXCEPT !.frame = [i \in 0..EMBENET_RADIO_MAX_PSDU_LENGTH |->
                                      IF i = 0 THEN len % 256
                                      ELSE IF i <= len THEN psdu[i] ELSE r.frame[i]],
                        !.state = "TX_PREPARED",
                        !.status = "EMBENET_RADIO_STATUS_SUCCESS"]

(* EMBENET_RADIO_Status EMBENET_RADIO_TxNow(void), after hfclkWait *)
EMBENET_RADIO_TxNow(r) ==
    [r EXCEPT !.state = "TX_FRAME", !.status = "EMBENET_RADIO_STATUS_SUCCESS"]

(* EMBENET_RADIO_Status EMBENET_RADIO_RxEnable(channel) *)
EMBENET_RADIO_RxEnable(r) ==
    [(IF ~r.lockHfxo THEN hfclkTurnOn(r) ELSE r)
        EXCEPT !.state = "RX_PREPARED", !.status = "EMBENET_RADIO_STATUS_SUCCESS"]

(* EMBENET_RADIO_Status EMBENET_RADIO_RxNow(void), after hfclkWait *)
EMBENET_RADIO_RxNow(r) ==
    [r EXCEPT !.state = "RX_LISTENING", !.status = "EMBENET_RADIO_STATUS_SUCCESS"]

(* EMBENET_RADIO_Status EMBENET_RADIO_StartContinuousTx(mode, channel, txp); *)
(* random is the value EMBENET_RANDOM_Get returns                          *)
EMBENET_RADIO_StartContinuousTx(r, mode, random) ==
    CASE mode = "PN9" ->
             [r EXCEPT !.frame = [i \in 0..EMBENET_RADIO_MAX_PSDU_LENGTH |->
                                     IF i = 0 THEN EMBENET_RADIO_MAX_PSDU_LENGTH
                                     ELSE random],
                       !.state = "TX_CONTINUOUS_PN9",
                       !.status = "EMBENET_RADIO_STATUS_SUCCESS"]
      [] mode = "CARRIER" ->
             [r EXCEPT !.state = "TX_CONTINUOUS_CW",
                       !.status = "EMBENET_RADIO_STATUS_SUCCESS"]
      [] OTHER -> [r EXCEPT !.status = "EMBENET_RADIO_STATUS_GENERAL_ERROR"]

radioRest == <<restVars, csVars, bspVars, timer, crcRun, rxRun>>

RadioInit ==
    /\ radio' = EMBENET_RADIO_Init(radio)
    /\ UNCHANGED radioRest

RadioDeinit ==
    /\ radio' = EMBENET_RADIO_Deinit(radio)
    /\ UNCHANGED radioRest

RadioIdle ==
    /\ radio' = EMBENET_RADIO_Idle(radio)
    /\ UNCHANGED radioRest

RadioTxEnable ==
    /\ \E psduLen \in PsduLens, fill \in 1..MaxPsduFill :
           radio' = EMBENET_RADIO_TxEnable(radio, [i \in 1..psduLen |-> fill], psduLen)
    /\ UNCHANGED radioRest

(* hfclkWait returns only once HFCLKSTARTED is set *)
RadioTxNow ==
    /\ radio.started
    /\ radio' = EMBENET_RADIO_TxNow(radio)
    /\ UNCHANGED radioRest

RadioRxEnable ==
    /\ radio' = EMBENET_RADIO_RxEnable(radio)
    /\ UNCHANGED radioRest

RadioRxNow ==
    /\ radio.started
    /\ radio' = EMBENET_RADIO_RxNow(radio)
    /\ UNCHANGED radioRest

RadioStartContinuousTx ==
    /\ \E mode \in {"PN9", "CARRIER", "other"} :
           /\ mode # "other" => radio.started
           /\ \E random \in 1..MaxPsduFill :
                  radio' = EMBENET_RADIO_StartContinuousTx(radio, mode, random)
    /\ UNCHANGED radioRest

(* EMBENET_NODE_BSP_UART_Init, line 36, and EMBENET_NODE_BSP_UART_Deinit, *)
(* line 80                                                              *)
UartLock ==
    /\ ~uart.irq
    /\ uart' = EMBENET_NODE_BSP_UART_Init(uart)
    /\ radio' = EMBENET_RADIO_LockHfxo(radio)
    /\ UNCHANGED <<restVars, csVars, initJob, lineAtReset, timer, crcRun, rxRun>>

UartUnlock ==
    /\ uart.irq
    /\ uart' = EMBENET_NODE_BSP_UART_Deinit(uart)
    /\ radio' = EMBENET_RADIO_UnlockHfxo(radio)
    /\ UNCHANGED <<restVars, csVars, initJob, lineAtReset, timer, crcRun, rxRun>>

NextRadio ==
    \/ RadioInit \/ RadioDeinit \/ RadioIdle \/ RadioTxEnable \/ RadioTxNow
    \/ RadioRxEnable \/ RadioRxNow \/ RadioStartContinuousTx
    \/ UartLock \/ UartUnlock

InitRadio ==
    InitState(<< >>, 1,
              [Inputs("radio", 0, 1, {1}, << >>, 0, 0)
                  EXCEPT !.radio = RadioReset, !.uart = UartReset])

SpecRadio == InitRadio /\ [][NextRadio]_vars

(***************************************************************************)
(* The timer port (embenet_timer.c) on the 24-bit RTC.  The RTC advances   *)
(* at any point of the code; the timer IRQ handler runs only while no      *)
(* EMBENET_TIMER_ReadCounter is in progress: the callers are the main      *)
(* context, inside the critical section, and the timer and radio ISRs,     *)
(* which have the same preemption priority as the handler.  The handler    *)
(* serves an overflow before the counter wraps again.                      *)
(***************************************************************************)
MaxTicks == 4

(* Advances of the RTC between two steps of the code: one tick, or all *)
(* but two ticks of a period                                           *)
TickSteps == {1, TIMER_MAX_VALUE - 1}

(* Distances between compareValue and the current time *)
CompareDeltas ==
    {WideSub32(WideOf(0), WideOf(GUARD_US)), WideSub32(WideOf(0), WideOf(1)),
     WideAdd(WideOf(2147483647), WideOf(1))}
    \cup {WideOf(n) : n \in {0, 1, GUARD_US - 1, GUARD_US, GUARD_US + 1,
     MAX_COMPARE_DURATION_US - 1, MAX_COMPARE_DURATION_US,
     MAX_COMPARE_DURATION_US + 1, MAX_COMPARE_DURATION_US + GUARD_US - 1,
     MAX_COMPARE_DURATION_US + GUARD_US, MAX_COMPARE_DURATION_US + GUARD_US + 1,
     2147483647}}

(* (uint64_t)counter * PERIOD_SCALED_UP / SCALE_FACTOR: the uint64_t    *)
(* product does not overflow, so the quotient is                         *)
(* floor(counter * PERIOD_NUM / PERIOD_DEN)                              *)
CounterUs(counter) ==
    WideOf((counter \div PERIOD_DEN) * PERIOD_NUM
           + ((counter % PERIOD_DEN) * PERIOD_NUM) \div PERIOD_DEN)

(* (uint32_t)((uint64_t)(delta) * SCALE_FACTOR / PERIOD_SCALED_UP) *)
UsToTicks(delta) ==
    (delta \div PERIOD_NUM) * PERIOD_DEN
    + ((delta % PERIOD_NUM) * PERIOD_DEN) \div PERIOD_NUM

(* EMBENET_TimeUs EMBENET_TIMER_GetMaxCompareDuration(void) *)
EMBENET_TIMER_GetMaxCompareDuration == MAX_COMPARE_DURATION_US

(* The RTC advances by n ticks *)
RtcAdvance(t, n) ==
    LET to == t.counter + n
        (* ticks until counter = cc, counted from the next tick *)
        toCc == ((t.cc - t.counter - 1) % (TIMER_MAX_VALUE + 1)) + 1
    IN  [t EXCEPT !.counter = to % (TIMER_MAX_VALUE + 1),
                  !.overflow = t.overflow \/ to > TIMER_MAX_VALUE,
                  !.compare = t.compare \/ toCc <= n,
                  !.ticks = t.ticks + n,
                  !.steps = t.steps + 1]

(* now of EMBENET_TIMER_SetCompare, lines 84-89 *)
SetCompareNow(t) ==
    Truncate32(IF t.overflow
               THEN WideAdd(WideAdd(CounterUs(t.counter), t.timerValueExtension),
                            WideOf(OVERFLOW_EXTENSION_US))
               ELSE WideAdd(CounterUs(t.counter), t.timerValueExtension))

(* void EMBENET_TIMER_SetCompare(EMBENET_TimeUs compareValue) *)
EMBENET_TIMER_SetCompare(t, compareValue) ==
    LET delta == WideSub32(compareValue, SetCompareNow(t))
        arm == WideLess(WideSub32(delta, WideOf(GUARD_US)),
                        WideOf(MAX_COMPARE_DURATION_US))
    IN  IF arm
        THEN [t EXCEPT !.intCompare = TRUE,
                       !.cc = (t.counter + UsToTicks(WideToInt(delta)))
                              % (TIMER_MAX_VALUE + 1),
                       !.set = [valid |-> TRUE, delta |-> delta, armed |-> TRUE,
                                due |-> t.ticks + UsToTicks(WideToInt(delta))],
                       !.callbacks = 0, !.early = FALSE]
        ELSE [t EXCEPT !.intCompare = TRUE,
                       !.irqPending = TRUE,
                       !.softwareIrq = TRUE,
                       !.set = [valid |-> TRUE, delta |-> delta, armed |-> FALSE,
                                due |-> t.ticks],
                       !.callbacks = 0, !.early = FALSE]

(* EMBENET_TIMER_ReadCounter, line 114: the first read of the counter *)
ReadCounterRead(t) ==
    [t EXCEPT !.now = WideAdd(CounterUs(t.counter), t.timerValueExtension),
              !.sample = t.ticks,
              !.pc = "check"]

(* ReadCounter that does not look at the OVERFLOW event *)
ReadCounterCheck_NoOverflow(t) == [t EXCEPT !.pc = "return"]

(* EMBENET_TIMER_ReadCounter, line 115: the test of the OVERFLOW event *)
ReadCounterCheck(t) ==
    [t EXCEPT !.pc = IF t.overflow THEN "reread" ELSE "return"]

(* EMBENET_TIMER_ReadCounter, line 116: the second read of the counter *)
ReadCounterReread(t) ==
    [t EXCEPT !.now = WideAdd(WideAdd(CounterUs(t.counter), t.timerValueExtension),
                              WideOf(OVERFLOW_EXTENSION_US)),
              !.sample = t.ticks,
              !.pc = "return"]

(* EMBENET_TIMER_ReadCounter, lines 118-120: return (EMBENET_TimeUs)(now) *)
ReadCounterReturn(t) ==
    [t EXCEPT !.result = Truncate32(t.now),
              !.lastNow = t.now,
              !.prevNow = t.lastNow,
              !.reads = IF t.reads < 2 THEN t.reads + 1 ELSE 2,
              !.pc = "idle"]

(* void EMBENET_PORT_TIMER_IRQ_HANDLER(void) *)
EMBENET_PORT_TIMER_IRQ_HANDLER(t) ==
    LET ovf == IF t.overflow
               THEN [t EXCEPT !.overflow = FALSE,
                              !.timerValueExtension =
                                  WideAdd(@, WideOf(OVERFLOW_EXTENSION_US)),
                              !.irqPending = FALSE]
               ELSE [t EXCEPT !.irqPending = FALSE]
    IN  IF ovf.compare \/ ovf.softwareIrq
        THEN [ovf EXCEPT !.compare = FALSE, !.intCompare = FALSE,
                         !.softwareIrq = FALSE,
                         !.callbacks = IF @ < 2 THEN @ + 1 ELSE 2,
                         !.early = ovf.set.armed /\ ovf.ticks < ovf.set.due]
        ELSE ovf

timerRest == <<restVars, csVars, bspVars, radio, crcRun, rxRun>>

(* The RTC counts *)
RtcTick ==
    /\ timer.steps < MaxTicks
    /\ \E n \in TickSteps :
           /\ ~(timer.overflow /\ timer.counter + n > TIMER_MAX_VALUE)
           /\ timer' = RtcAdvance(timer, n)
    /\ UNCHANGED timerRest

SetCompareCall ==
    /\ timer.pc = "idle"
    /\ \E d \in CompareDeltas :
           timer' = EMBENET_TIMER_SetCompare(
                        timer, Truncate32(WideAdd(SetCompareNow(timer), d)))
    /\ UNCHANGED timerRest

ReadCounterCall ==
    /\ timer.pc = "idle"
    /\ timer' = ReadCounterRead(timer)
    /\ UNCHANGED timerRest

ReadCounterTest ==
    /\ timer.pc = "check"
    /\ timer' = ReadCounterCheck(timer)
    /\ UNCHANGED timerRest

ReadCounterAgain ==
    /\ timer.pc = "reread"
    /\ timer' = ReadCounterReread(timer)
    /\ UNCHANGED timerRest

ReadCounterExit ==
    /\ timer.pc = "return"
    /\ timer' = ReadCounterReturn(timer)
    /\ UNCHANGED timerRest

TimerIrq ==
    /\ timer.pc = "idle"
    /\ timer.overflow \/ (timer.compare /\ timer.intCompare) \/ timer.irqPending
    /\ timer' = EMBENET_PORT_TIMER_IRQ_HANDLER(timer)
    /\ UNCHANGED timerRest

(* Calls of EMBENET_TIMER_ReadCounter while the RTC counts *)
NextTimer ==
    \/ RtcTick \/ ReadCounterCall \/ ReadCounterTest \/ ReadCounterAgain
    \/ ReadCounterExit \/ TimerIrq

(* Calls of EMBENET_TIMER_SetCompare while the RTC counts *)
NextCompare == RtcTick \/ SetCompareCall \/ TimerIrq

(* Counter wraps before the run starts: none, or eight, so that the time *)
(* passes 2^32 us at the next wrap                                       *)
WrapsBefore == {0, 8}

InitTimer ==
    \E wraps \in WrapsBefore, counter \in {0, TIMER_MAX_VALUE - 1} :
        InitState(<< >>, 1,
                  [Inputs("timer", 0, 1, {1}, << >>, 0, 0)
                      EXCEPT !.timer =
                          [TimerReset EXCEPT
                              !.counter = counter,
                              !.timerValueExtension =
                                  WideTimes(WideOf(OVERFLOW_EXTENSION_US), wraps),
                              !.ticks = wraps * (TIMER_MAX_VALUE + 1) + counter]])

SpecTimer == InitTimer /\ [][NextTimer]_vars

SpecCompare == InitTimer /\ [][NextCompare]_vars

(***************************************************************************)
(* SpecShared: the line FLAG <body1> FLAG <body2> FLAG, one FLAG between   *)
(* the two bodies.  body1 is the body of a frame that fits the caller's    *)
(* buffer ("valid"), of a frame that does not ("small"), or bytes that     *)
(* fail the CRC check ("crc"); body2 is the body of the frame of a payload *)
(* that fits.                                                              *)
(***************************************************************************)
Body(packetBytes) == SubSeq(SendBytes(packetBytes), 2, Len(SendBytes(packetBytes)) - 1)

FirstBody(kind) ==
    CASE kind = "valid" -> Body(<<42>>)
      [] kind = "small" -> Body(<<1, 2, 3>>)
      [] kind = "crc"   -> <<1, 2, 3, HDLC_ESCAPE, 4>>

SecondPayloads == {p \in ShortPayloads : Len(p) <= 2}

InitShared ==
    \E kind \in {"valid", "small", "crc"}, P \in SecondPayloads :
        InitState(<<HDLC_FLAG>> \o FirstBody(kind) \o <<HDLC_FLAG>> \o Body(P)
                      \o <<HDLC_FLAG>>,
                  2, Inputs(kind, 0, 1, {2}, P, 0, 0))

SpecShared == InitShared /\ [][NextLine]_vars

(***************************************************************************)
(* SpecShort: a frame of at most two accumulated bytes (the frame of the   *)
(* empty payload is FLAG 00 00 FLAG), closed by a FLAG of its own or by    *)
(* the opening FLAG of the frame of a payload that follows.  Short lines   *)
(* are polled at every byte, the line of the longest payload after the     *)
(* short frame and at its end.                                             *)
(***************************************************************************)
ShortFrames ==
    {<<HDLC_FLAG, 1>>, <<HDLC_FLAG, 1, 2>>, <<HDLC_FLAG, 0, 0>>,
     <<HDLC_FLAG, HDLC_ESCAPE>>, <<HDLC_FLAG, HDLC_ESCAPE, 94, 1>>,
     <<HDLC_FLAG, 1, HDLC_FLAG>>, <<HDLC_FLAG, 0, 0, HDLC_FLAG>>}

InitShort ==
    \E short \in ShortFrames, P \in ResyncPayloads \cup LongPayloads :
        /\ P \in LongPayloads => short \in {<<HDLC_FLAG, 0, 0>>, <<HDLC_FLAG, 1, HDLC_FLAG>>}
        /\ InitState(short \o SendBytes(P), EMBENET_BRT_MAX_FRAME_SIZE,
                  Inputs("tooshort", 0,
                            IF P \in LongPayloads THEN Len(SendBytes(P)) - 1 ELSE 1,
                            {1, Len(P), EMBENET_BRT_MAX_FRAME_SIZE}, P, 0, 0))

SpecShort == InitShort /\ [][NextLine]_vars

(***************************************************************************)
(* SpecEscape: FLAG, then input.pos bytes that fill the accumulator up to  *)
(* that index, for every index up to EMBENET_BRT_MAX_FRAME_SIZE, and then  *)
(* ESCAPE and a byte, or a byte alone.  The main context polls once the    *)
(* filling bytes have arrived, and after each byte from then on.           *)
(***************************************************************************)
EscapeTails == {<<HDLC_ESCAPE, 94>>, <<7>>}

InitEscape ==
    \E index \in 0..EMBENET_BRT_MAX_FRAME_SIZE, tail \in EscapeTails :
        InitState(<<HDLC_FLAG>> \o Filler(index) \o tail, 1,
                  Inputs("escape", 0, 1, {1}, tail, index, 0))

ReceiveTail ==
    /\ Len(wire) < Len(input.payload)
    /\ \E packetBufferSize \in input.caps : EMBENET_BRT_Receive(packetBufferSize)

NextEscape == rx_isr \/ ReceiveTail

SpecEscape == InitEscape /\ [][NextEscape]_vars

(***************************************************************************)
(* SpecRx: the receive side alone.  rx_isr pushes the bytes of a line      *)
(* while the main context makes EMBENET_BRT_Receive calls, statement by    *)
(* statement, and EMBENET_BRT_ReceiveRaw calls, whose loop runs between    *)
(* Enter and Exit (lines 237-245) and is one step for rx_isr.              *)
(***************************************************************************)
(* The main context calls EMBENET_BRT_ReceiveRaw when it is in no other call *)
ReceiveRawCall ==
    /\ rxRun.pc = "idle"
    /\ ReceiveRaw

NextRx == rx_isr \/ ReceiveCall \/ ReceiveWhile \/ ReceivePop \/ ReceiveRawCall

RxLines == RawLines \cup {SendBytes(<<42>>)}

InitRx ==
    \E line \in RxLines :
        InitState(line, 2, Inputs("poll", 0, 1, {1, 2}, << >>, 0, 0))

SpecRx == InitRx /\ [][NextRx]_vars

(***************************************************************************)
(* SpecReinit: EMBENET_BRT_Init and EMBENET_BRT_Deinit calls between up to *)
(* MaxSends send calls, with the UART interrupt served in between          *)
(* (actions of SpecInit).                                                  *)
(***************************************************************************)
InitReinit ==
    \E line \in {<<7>>} :
        InitState(line, 1, Inputs("init", MaxSends, 1, {1}, << >>, 0, 0))

SpecReinit == InitReinit /\ [][NextInit]_vars

(***************************************************************************)
(* SpecResidue: the CRC of a frame from end to end.  crcRun is the record  *)
(*   [frame, sent, noisy, checked, accepted]                               *)
(* of the unstuffed bytes between the two FLAGs of one frame: the payload, *)
(* then (sent) the two CRC bytes EMBENET_BRT_Send appends, one byte        *)
(* possibly replaced on the line (noisy), and the outcome of the CRC       *)
(* comparison of EMBENET_BRT_Receive on them (checked, accepted).          *)
(***************************************************************************)
ResiduePayloads ==
    SeqsUpTo({0, 1, HDLC_FLAG, 255}, MaxPayloadLen) \cup {ExamplePayload}

(* EMBENET_BRT_Send, lines 119-131: the CRC folded over the payload,       *)
(* complemented, low byte first                                            *)
SendCrc ==
    /\ ~crcRun.sent
    /\ LET lp == SendLoop([t |-> TxState, finalCrc |-> HDLC_CRCINIT],
                          crcRun.frame, 1, Len(crcRun.frame))
           finalCrc == Not16(lp.finalCrc)
       IN  crcRun' = [crcRun EXCEPT
                          !.frame = @ \o <<finalCrc % 256, (finalCrc \div 256) % 256>>,
                          !.sent = TRUE]
    /\ UNCHANGED <<restVars, csVars, bspVars, radio, timer, rxRun>>

(* One byte of the frame is replaced on the line *)
LineNoise ==
    /\ crcRun.sent /\ ~crcRun.noisy /\ ~crcRun.checked
    /\ \E i \in 1..Len(crcRun.frame) : \E v \in Byte \ {crcRun.frame[i]} :
           crcRun' = [crcRun EXCEPT !.frame[i] = v, !.noisy = TRUE]
    /\ UNCHANGED <<restVars, csVars, bspVars, radio, timer, rxRun>>

(* EMBENET_BRT_Receive, lines 196-227, on the accumulated bytes of a       *)
(* completed frame (more than two, line 163)                               *)
CrcCheck ==
    /\ crcRun.sent /\ ~crcRun.checked
    /\ Len(crcRun.frame) > 2
    /\ LET d == [inputFrame |-> [i \in 1..EMBENET_BRT_MAX_FRAME_SIZE |->
                                    IF i <= Len(crcRun.frame) THEN crcRun.frame[i] ELSE 0],
                 inputFrameDataIndex |-> Len(crcRun.frame),
                 inputFrameReceiving |-> FALSE,
                 lastDataByte |-> HDLC_FLAG, frameComplete |-> TRUE]
           r == ReceiveFrame(d, [i \in 1..EMBENET_BRT_MAX_FRAME_SIZE |-> 0],
                             EMBENET_BRT_MAX_FRAME_SIZE)
       IN  crcRun' = [crcRun EXCEPT !.checked = TRUE, !.accepted = r.ret > 0]
    /\ UNCHANGED <<restVars, csVars, bspVars, radio, timer, rxRun>>

NextResidue == SendCrc \/ LineNoise \/ CrcCheck

InitResidue ==
    \E P \in ResiduePayloads :
        InitState(<< >>, 1,
                  [Inputs("residue", 0, 1, {1}, P, 0, 0)
                      EXCEPT !.crcRun = [frame |-> P, sent |-> FALSE, noisy |-> FALSE,
                                         checked |-> FALSE, accepted |-> FALSE]])

SpecResidue == InitResidue /\ [][NextResidue]_vars

(***************************************************************************)
(* SpecIsolate: EMBENET_BRT_Deinit and EMBENET_BRT_Init calls while the    *)
(* frame of payload 01 arrives and the main context polls                  *)
(* EMBENET_BRT_Receive between the calls.                                  *)
(***************************************************************************)
(* The main context polls when it is in no Init or Deinit call *)
ReceiveBetween ==
    /\ initJob = << >>
    /\ Receive

NextIsolate == CallInit \/ InitStep \/ UartRxIrq \/ ReceiveBetween

InitIsolate ==
    \E line \in {SendBytes(<<1>>)} :
        InitState(line, 1, Inputs("isolate", 0, 1, {1}, <<1>>, 0, 0))

SpecIsolate == InitIsolate /\ [][NextIsolate]_vars

(***************************************************************************)
(* Properties of the frame encoder and of the round trip (Spec)            *)
(***************************************************************************)
(* stuff(b) of the wire format *)
Stuff(b) ==
    IF b = 126 \/ b = 125 THEN <<125, BitXor(b, 32)>> ELSE <<b>>

(* stuff(s[from]) ... stuff(s[to]) *)
RECURSIVE StuffAll(_, _, _)
StuffAll(s, from, to) ==
    IF from > to THEN << >>
    ELSE IF from = to THEN Stuff(s[from])
    ELSE LET mid == (from + to) \div 2
         IN  StuffAll(s, from, mid) \o StuffAll(s, mid + 1, to)

(* NOT(fold of crcStep over the bytes of P starting from 0xFFFF) *)
FrameCrc(P) == 65535 - CrcLoop(65535, P, 1, Len(P))

WireFormat(P) ==
    <<126>> \o StuffAll(P, 1, Len(P)) \o Stuff(FrameCrc(P) % 256)
            \o Stuff(FrameCrc(P) \div 256) \o <<126>>

LastSent == sent[Len(sent)]

(* C2: one EMBENET_BRT_Send(P) call hands to uartWrite exactly             *)
(* FLAG, stuff(P[0]) .. stuff(P[n-1]), stuff(crc & 0xFF), stuff(crc >> 8), *)
(* FLAG; payload 01 7E 7D 02 yields 7E 01 7D 5E 7D 5D 02 08 13 7E (its     *)
(* CRC-16/X-25 is 0x1308).                                                 *)
C2_WireFormat ==
    sent # << >> =>
        /\ written = WireFormat(LastSent)
        /\ LastSent = <<1, 126, 125, 2>> =>
               written = <<126, 1, 125, 94, 125, 93, 2, 8, 19, 126>>

C2_Witness ==
    /\ sent # << >>
    /\ LastSent = <<1, 126, 125, 2>>
    /\ Len(written) = 10

(* C3: in the bytes one EMBENET_BRT_Send call emits, 0x7E occurs only as   *)
(* the first and as the last byte, also when the payload holds 0x7E or     *)
(* 0x7D or a CRC byte equals 0x7E or 0x7D.                                 *)
C3_FlagOnlyDelimits ==
    sent # << >> =>
        /\ Len(written) >= 2
        /\ \A i \in 1..Len(written) :
               written[i] = 126 <=> i \in {1, Len(written)}

(* the payload 0x2A, whose high CRC byte is 0x7E, has been sent *)
C3_Witness ==
    /\ sent # << >>
    /\ LastSent = <<42>>
    /\ FrameCrc(LastSent) \div 256 = 126
    /\ written = <<126, 42, 32, 125, 94, 126>>

(* every payload sent fits the smallest buffer capacity passed so far *)
BigEnough == \A k \in 1..Len(sent) : Len(sent[k]) <= minCap

IsPrefix(s, t) == Len(s) <= Len(t) /\ s = SubSeq(t, 1, Len(s))

(* C1: round trip.  When the bytes EMBENET_BRT_Send(P) passes to uartWrite *)
(* reach the inbound queue of the decoder unchanged and in order, polling  *)
(* EMBENET_BRT_Receive with bufferCapacity >= |P| returns |P| exactly once *)
(* with the buffer holding P (1 <= |P| <= 198): nothing but the payloads   *)
(* sent is returned, each at most once, and once the whole frame has been  *)
(* consumed it has been returned.                                          *)
C1_RoundTrip ==
    BigEnough =>
        /\ IsPrefix(results, sent)
        /\ (wire = << >> /\ inputRingBuffer = << >>) => results = sent
        /\ last.ret > 0 =>
               /\ results # << >>
               /\ last.ret = Len(results[Len(results)])
               /\ SubSeq(packetBuffer, 1, last.ret) = results[Len(results)]

(* the payload of 198 bytes has made the round trip *)
C1_Witness ==
    /\ sent # << >>
    /\ results = sent
    /\ Len(sent[1]) = EMBENET_BRT_MAX_FRAME_SIZE - 2
    /\ last.ret = EMBENET_BRT_MAX_FRAME_SIZE - 2

(***************************************************************************)
(* Properties of the decoder on prepared lines                             *)
(***************************************************************************)
(* the whole line has been received and popped *)
AllConsumed == wire = << >> /\ inputRingBuffer = << >>

(* every call so far had room for the payload the line carries *)
Fits == minCap >= Len(input.payload)

(* the byte of the frame that holds the flipped bit, before and after *)
FlippedFrom == WireFormat(input.payload)[input.pos]

FlippedTo == BitXor(FlippedFrom, 2 ^ input.bit)

(* the flip neither makes a FLAG or an ESCAPE nor unmakes an ESCAPE *)
FlipKeepsStuffing == FlippedFrom # 125 /\ FlippedTo \notin {126, 125}

(* C4 as stated: with any one bit flipped between the delimiters of the    *)
(* frame of P, every EMBENET_BRT_Receive call returns 0.                   *)
C4_AnyFlipRejected ==
    input.mode = "flip" => (results = << >> /\ last.ret = 0)

(* C4, amended: with one bit flipped between the delimiters of the frame   *)
(* of P, the flip neither turning a byte into FLAG or ESCAPE nor turning   *)
(* an ESCAPE into another byte, every EMBENET_BRT_Receive call returns 0.  *)
C4_FlipRejected ==
    (input.mode = "flip" /\ FlipKeepsStuffing) =>
        (results = << >> /\ last.ret = 0)

(* such a frame has been consumed to its closing FLAG and failed the CRC   *)
(* comparison                                                              *)
C4_Witness ==
    /\ input.mode = "flip"
    /\ FlipKeepsStuffing
    /\ input.payload = <<42>>
    /\ AllConsumed
    /\ last.checked
    /\ last.ret = 0
    /\ results = << >>

(* the accumulated bytes of the stuffed bytes b: each ESCAPE is dropped    *)
(* and the byte after an ESCAPE has 0x20 inverted                          *)
RECURSIVE UnstuffFrom(_, _)
UnstuffFrom(b, i) ==
    IF i > Len(b) THEN << >>
    ELSE IF b[i] = 125 THEN UnstuffFrom(b, i + 1)
    ELSE <<IF i > 1 /\ b[i - 1] = 125 THEN BitXor(b[i], 32) ELSE b[i]>>
             \o UnstuffFrom(b, i + 1)

Unstuff(b) == UnstuffFrom(b, 1)

(* C5: whenever EMBENET_BRT_Receive returns n > 0, the last byte popped is *)
(* a FLAG, the bytes popped between it and the FLAG before it unstuff to   *)
(* n + 2 bytes, the first n are in the caller's buffer, and the other two  *)
(* are the complemented CRC folded from 0xFFFF over those n bytes, low     *)
(* byte first (they are the first n + 2 bytes of the accumulator); n fits  *)
(* the capacity passed.  A call that did not complete such a frame         *)
(* returns 0.                                                              *)
C5_OnlyValidFrames ==
    /\ last.ret > 0 =>
        LET n == last.ret
            close == Len(consumed)
        IN  /\ n <= last.cap
            /\ close >= 2
            /\ consumed[close] = 126
            /\ \E open \in 1..(close - 1) :
                   /\ consumed[open] = 126
                   /\ \A j \in (open + 1)..(close - 1) : consumed[j] # 126
                   /\ LET acc == Unstuff(SubSeq(consumed, open + 1, close - 1))
                      IN  /\ Len(acc) = n + 2
                          /\ SubSeq(packetBuffer, 1, n) = SubSeq(acc, 1, n)
                          /\ SubSeq(inputFrame, 1, n + 2) = acc
                          /\ acc[n + 1] = FrameCrc(SubSeq(acc, 1, n)) % 256
                          /\ acc[n + 2] = FrameCrc(SubSeq(acc, 1, n)) \div 256
    /\ (last.called /\ ~last.checked) => last.ret = 0

(* a frame with a stuffed CRC byte has been returned *)
C5_Witness ==
    /\ last.ret = 1
    /\ packetBuffer[1] = 42
    /\ \E i \in 1..Len(consumed) : consumed[i] = 125

(* C6: a call that completes a CRC-valid frame whose payload is longer     *)
(* than the bufferCapacity passed returns 0 and leaves the caller's buffer *)
(* unchanged.                                                              *)
C6_UndersizedNoCopy ==
    [][\A cap \in input.caps :
           (EMBENET_BRT_Receive(cap) /\ last'.valid > cap) =>
               (last'.ret = 0 /\ packetBuffer' = packetBuffer)]_vars

(* C7: on a line holding a malformed frame (CRC mismatch, too short, more  *)
(* than EMBENET_BRT_MAX_FRAME_SIZE unstuffed bytes) and then the frame of  *)
(* P, calls with buffers that hold P return 0 until one returns |P| with   *)
(* the buffer holding P, and that call has been made once the line has     *)
(* been consumed.                                                          *)
C7_Resync ==
    (input.mode \in {"crc", "short", "long"} /\ Fits) =>
        /\ IsPrefix(results, <<input.payload>>)
        /\ AllConsumed => results = <<input.payload>>
        /\ last.ret > 0 =>
               /\ last.ret = Len(input.payload)
               /\ SubSeq(packetBuffer, 1, last.ret) = input.payload

(* the payload has been returned after the oversized frame *)
C7_Witness ==
    /\ input.mode = "long"
    /\ input.payload = <<1, 126, 125, 2>>
    /\ AllConsumed
    /\ results = <<input.payload>>
    /\ last.ret = 4

(* C8: on the line FLAG FLAG <stuffed P and CRC> FLAG the only frame       *)
(* whose CRC is ever compared is the one of P, nothing but P is returned,  *)
(* at most once, and with buffers that hold P it has been returned once    *)
(* the line has been consumed.                                             *)
C8_DoubleFlag ==
    input.mode = "flag" =>
        /\ last.checked => last.valid = Len(input.payload)
        /\ IsPrefix(results, <<input.payload>>)
        /\ (Fits /\ AllConsumed) => results = <<input.payload>>

C8_Witness ==
    /\ input.mode = "flag"
    /\ input.payload = <<126>>
    /\ AllConsumed
    /\ last.checked
    /\ results = <<input.payload>>

(* the frames of sent[k], sent[k + 1], ... in a row *)
RECURSIVE FramesFrom(_)
FramesFrom(k) ==
    IF k > Len(sent) THEN << >> ELSE WireFormat(sent[k]) \o FramesFrom(k + 1)

(* C9: with buffers that hold every payload sent, a call that returns a    *)
(* payload leaves every byte after the closing FLAG of its frame in the    *)
(* queue or on the line (they are the frames of the payloads not returned  *)
(* yet), and when the queue holds the frames of the k payloads not         *)
(* returned yet a call returns the first of them, so that k calls return   *)
(* them in the order sent.                                                 *)
C9_OneFramePerCall ==
    [][\A cap \in input.caps :
           (EMBENET_BRT_Receive(cap) /\ BigEnough') =>
               /\ last'.ret > 0 =>
                      inputRingBuffer' \o wire' = FramesFrom(Len(results') + 1)
               /\ (/\ Len(results) < Len(sent)
                   /\ wire = << >>
                   /\ inputRingBuffer = FramesFrom(Len(results) + 1)) =>
                      /\ results' = Append(results, sent[Len(results) + 1])
                      /\ inputRingBuffer' = FramesFrom(Len(results) + 2)]_vars

(* of two different frames queued the first has been returned and the      *)
(* second is still in the queue                                            *)
C9_Witness ==
    /\ Len(sent) = 2
    /\ sent[1] # sent[2]
    /\ results = <<sent[1]>>
    /\ last.ret > 0
    /\ wire = << >>
    /\ inputRingBuffer = WireFormat(sent[2])

(* C10: an EMBENET_BRT_Receive call made while the inbound queue is empty  *)
(* returns 0 and leaves the decoder session, the inbound queue and the     *)
(* caller's buffer unchanged, in every state a byte stream can put the     *)
(* decoder in.                                                             *)
C10_IdlePoll ==
    [][\A cap \in input.caps :
           (inputRingBuffer = << >> /\ EMBENET_BRT_Receive(cap)) =>
               /\ last'.ret = 0
               /\ UNCHANGED <<inputFrame, inputFrameDataIndex, inputFrameReceiving,
                              lastDataByte, inputRingBuffer, packetBuffer>>]_vars

(* two calls in a row on an empty queue in the middle of a frame *)
C10_Witness ==
    /\ last.idle = 2
    /\ inputFrameReceiving
    /\ inputFrameDataIndex > 0
    /\ lastDataByte = 125

(***************************************************************************)
(* Properties of the transmit pump (SpecTx, SpecTxFair)                    *)
(***************************************************************************)
(* no byte passed to uartWrite has been refused by the outbound queue *)
NoOverflow == accepted = passed

(* C11: as long as the outbound queue has refused no byte, the bytes       *)
(* handed to EMBENET_NODE_BSP_UART_WriteByte followed by the bytes still   *)
(* queued are the bytes passed to uartWrite, in the same order, under      *)
(* every interleaving of tx_isr with the uartWrite calls of Send and       *)
(* SendRaw; with nothing queued the UART has been handed exactly the bytes *)
(* passed.                                                                 *)
C11_TransmitFifo ==
    NoOverflow =>
        /\ uartTx \o outputRingBuffer = passed
        /\ outputRingBuffer = << >> => uartTx = passed

(* tx_isr has run in the middle of the second call, bytes are queued *)
C11_Witness ==
    /\ NoOverflow
    /\ txCall.calls = 2
    /\ txJob # << >>
    /\ outputRingBuffer # << >>
    /\ Len(uartTx) >= 3
    /\ Len(passed) > Len(uartTx) + 1

(* every byte taken has been handed to the UART and its transmit-complete  *)
(* interrupt served; EMBENET_BRT_IsBusy() returns false                    *)
Drained ==
    /\ outputRingBuffer = << >>
    /\ txPending = 0
    /\ uartTx = accepted
    /\ ~EMBENET_BRT_IsBusy

(* C12: when every byte written to the UART is followed by its             *)
(* transmit-complete interrupt, after the send calls made (also those in   *)
(* which the outbound queue refused bytes) the pump reaches, again and     *)
(* again, the state in which every byte taken by the queue has been        *)
(* written to the UART, the queue is empty and IsBusy is false; while      *)
(* bytes are queued a transmit-complete interrupt is outstanding.          *)
C12_PumpDrains ==
    /\ [](outputRingBuffer # << >> => (txPending > 0 /\ isTransmitting))
    /\ []<>Drained

(* the pump has drained after a call in which bytes were refused *)
C12_Witness ==
    /\ Drained
    /\ accepted # passed
    /\ Len(uartTx) > OUTPUT_RING_BUFFER_SIZE
    /\ txCall.calls = 2

(* IsBusy is true exactly when a byte written to the UART awaits its       *)
(* transmit-complete interrupt or bytes are queued                         *)
BusyTracks ==
    EMBENET_BRT_IsBusy <=> (txPending > 0 \/ outputRingBuffer # << >>)

(* C13: between the steps of the main context and the interrupts,          *)
(* EMBENET_BRT_IsBusy() is true whenever a byte written to the UART has    *)
(* not had its transmit-complete interrupt served or the outbound queue is *)
(* non-empty, and false otherwise; it becomes false only in a tx_isr that  *)
(* finds the queue empty, and every such tx_isr makes it false.            *)
C13_IsBusy ==
    /\ []BusyTracks
    /\ [][/\ (isTransmitting /\ ~isTransmitting') =>
                 /\ outputRingBuffer = << >>
                 /\ txPending' = txPending - 1
                 /\ uartTx' = uartTx
          /\ (tx_isr /\ outputRingBuffer = << >>) => ~isTransmitting']_vars

(* IsBusy has become false in the middle of a send call *)
C13_Witness ==
    /\ ~EMBENET_BRT_IsBusy
    /\ uartTx # << >>
    /\ txPending = 0
    /\ txJob # << >>

(* C14: every queue access (push, pop, length check) made by Send, SendRaw, *)
(* Receive, ReceiveRaw, tx_isr and rx_isr is executed with the critical     *)
(* section entered (nest counter > 0): the set of accesses made with the    *)
(* nest counter at 0 stays empty.                                           *)
C14_QueueGuarded == unguarded = {}

(* C15: over properly nested Enter / Exit calls interrupts are disabled     *)
(* whenever the nest counter is above 0, and an Exit that leaves the        *)
(* counter above 0 leaves interrupts disabled.                              *)
C15_Nesting ==
    /\ [](irqNestCounter > 0 => primask = 1)
    /\ [][(irqNestCounter' < irqNestCounter /\ irqNestCounter' > 0)
              => primask' = 1]_vars

(* A function called inside the caller's section has made its inner Exit *)
C15_Witness ==
    /\ csFn = "uartWrite"
    /\ csJob = << >>
    /\ irqNestCounter = 1
    /\ primask = 1
    /\ outerIrq = 0

(* C16: with the nest counter back at 0 the interrupt mask is the one found *)
(* immediately before the outermost Enter: enabled if it was enabled,       *)
(* disabled if it was disabled, whatever interrupt handlers ran in between. *)
C16_Restore == irqNestCounter = 0 => primask = outerIrq

(* Interrupts were disabled before the outermost Enter and the matching Exit *)
(* has been made                                                             *)
C16_Witness ==
    /\ csFn = "EMBENET_BRT_ReceiveRaw"
    /\ csJob = << >>
    /\ irqNestCounter = 0
    /\ outerIrq = 1
    /\ primask = 1

(* The first n elements of a sequence, and the rest *)
Take(s, n) == SubSeq(s, 1, Min(n, Len(s)))

Drop(s, n) == SubSeq(s, Min(n, Len(s)) + 1, Len(s))

(* C17: EMBENET_BRT_ReceiveRaw(buffer, capacity) on queue content Q returns  *)
(* n = min(|Q|, capacity), for every capacity including 0; buffer[0..n-1]    *)
(* holds the n oldest bytes of Q in order and unchanged, the queue keeps the *)
(* rest of Q in order, and no byte at or beyond buffer[capacity] is written. *)
C17_ReceiveRaw ==
    [][ReceiveRaw =>
          LET n == Min(Len(inputRingBuffer), raw'.cap)
          IN  /\ raw'.ret = n
              /\ Take(packetBuffer', n) = Take(inputRingBuffer, n)
              /\ inputRingBuffer' = Drop(inputRingBuffer, n)
              /\ Drop(packetBuffer', raw'.cap) = Drop(packetBuffer, raw'.cap)]_vars

(* C18: EMBENET_BRT_SendRaw(D) passes exactly the bytes of D to uartWrite,  *)
(* in order and unmodified: at every point of the call the bytes passed so  *)
(* far and the bytes still to pass make up D, with no FLAG, no escaping and *)
(* no CRC, and when the call returns the bytes passed are D.                *)
C18_SendRawPassthrough ==
    txCall.kind = "SendRaw" =>
        /\ written \o txJob = txCall.data
        /\ (txJob = << >> => written = txCall.data)

(* A call with a FLAG and an ESCAPE byte has returned *)
C18_Witness ==
    /\ txCall.kind = "SendRaw"
    /\ txCall.data = <<HDLC_FLAG, HDLC_ESCAPE>>
    /\ txJob = << >>
    /\ written = <<HDLC_FLAG, HDLC_ESCAPE>>

EndsWith(s, t) == Len(s) >= Len(t) /\ SubSeq(s, Len(s) - Len(t) + 1, Len(s)) = t

(* C19: a frame whose closing FLAG immediately follows an ESCAPE byte is    *)
(* discarded, even when the bytes stored before the ESCAPE form a CRC-valid *)
(* frame body: the EMBENET_BRT_Receive call that consumes ESCAPE FLAG as    *)
(* the end of a frame returns 0.                                            *)
C19_DanglingEscapeRejected ==
    (last.called /\ EndsWith(consumed, <<HDLC_ESCAPE, HDLC_FLAG>>)) => last.ret = 0

(* C20: the accumulator index stays within 0..EMBENET_BRT_MAX_FRAME_SIZE    *)
(* and a byte is stored only at an index below the maximum; a byte popped   *)
(* while the accumulator is full aborts the frame (receiving off, index 0,  *)
(* nothing returned, accumulator untouched); nothing but the payload of the *)
(* valid frame on the line is ever returned; a frame of exactly             *)
(* EMBENET_BRT_MAX_FRAME_SIZE unstuffed bytes is returned.                  *)
C20_AccumulatorBound ==
    /\ [](inputFrameDataIndex \in 0..EMBENET_BRT_MAX_FRAME_SIZE)
    /\ [][(ReceiveLate /\ Len(consumed') = Len(consumed) + 1) =>
              /\ (inputFrameDataIndex' > inputFrameDataIndex \/ inputFrame' # inputFrame)
                     => inputFrameDataIndex < EMBENET_BRT_MAX_FRAME_SIZE
              /\ (/\ inputFrameReceiving
                  /\ inputFrameDataIndex = EMBENET_BRT_MAX_FRAME_SIZE
                  /\ Head(inputRingBuffer) # HDLC_FLAG)
                     => /\ ~inputFrameReceiving'
                        /\ inputFrameDataIndex' = 0
                        /\ inputFrame' = inputFrame
                        /\ last'.ret = 0]_vars
    /\ [](IsPrefix(results, <<input.payload>>))
    /\ [](AllConsumed => results = <<input.payload>>)

(* The byte after EMBENET_BRT_MAX_FRAME_SIZE stored bytes has been popped *)
C20_Witness ==
    /\ input.mode = "over"
    /\ Len(consumed) = EMBENET_BRT_MAX_FRAME_SIZE + 2
    /\ ~inputFrameReceiving
    /\ inputFrameDataIndex = 0
    /\ last.ret = 0

(* EMBENET_BRT_Init, or EMBENET_BRT_Deinit, executes its last statement *)
InitReturns == InitStep /\ initJob = <<"EMBENET_NODE_BSP_UART_Init">>

DeinitReturns == InitStep /\ initJob = <<"RingBuffer_Init(output)">> /\ ~uart.irq

(* The bytes that have arrived since the inbound queue was reset *)
ArrivedSinceReset == SubSeq(lineAtReset, 1, Len(lineAtReset) - Len(wire))

(* C21 as stated: from any reachable state, when EMBENET_BRT_Init or        *)
(* EMBENET_BRT_Deinit returns both queues are empty and EMBENET_BRT_IsBusy  *)
(* is false; after Init the callbacks are bound, after Deinit unbound.      *)
C21_InitResetsBoth ==
    [][(InitReturns \/ DeinitReturns) =>
           /\ inputRingBuffer' = << >>
           /\ outputRingBuffer' = << >>
           /\ ~isTransmitting'
           /\ InitReturns => (uart'.txCb /\ uart'.rxCb)
           /\ DeinitReturns => (~uart'.txCb /\ ~uart'.rxCb)]_vars

(* C21: when EMBENET_BRT_Init or EMBENET_BRT_Deinit returns the outbound    *)
(* queue is empty and EMBENET_BRT_IsBusy is false; after Deinit the inbound *)
(* queue is empty and the callbacks are unbound; after Init the callbacks   *)
(* are bound and the inbound queue holds the bytes rx_isr pushed after the  *)
(* call reset it, and none queued before.                                   *)
C21_InitResets ==
    [][(InitReturns \/ DeinitReturns) =>
           /\ outputRingBuffer' = << >>
           /\ ~isTransmitting'
           /\ InitReturns => /\ uart'.txCb /\ uart'.rxCb
                             /\ inputRingBuffer' = ArrivedSinceReset'
           /\ DeinitReturns => /\ ~uart'.txCb /\ ~uart'.rxCb
                               /\ inputRingBuffer' = << >>]_vars

(* EMBENET_BRT_Init has returned with the byte that arrived before the call *)
(* gone and the byte that arrived during the call queued                    *)
C21_Witness ==
    /\ initJob = << >>
    /\ uart.txCb /\ uart.rxCb
    /\ lineAtReset = <<HDLC_FLAG>>
    /\ inputRingBuffer = <<HDLC_FLAG>>
    /\ outputRingBuffer = << >>
    /\ ~isTransmitting

(* C22: every EMBENET_BRT_Receive call returns, whatever rx_isr does while  *)
(* it runs, once the finitely many bytes of the line have arrived, having   *)
(* made no more loop passes than bytes it popped; every EMBENET_BRT_Send    *)
(* and EMBENET_BRT_SendRaw call returns after at most 2 * (|P| + 2) + 2,    *)
(* respectively |D|, uartWrite calls, each of them one step, with the       *)
(* outbound queue full or not and whether tx_isr runs or not.               *)
C22_NonBlocking ==
    /\ (rxRun.pc # "idle") ~> (rxRun.pc = "idle")
    /\ (txJob # << >>) ~> (txJob = << >>)
    /\ [](rxRun.passes <= Len(consumed))
    /\ [](txCall.kind = "Send" => Len(written) + Len(txJob) <= 2 * (Len(txCall.data) + 2) + 2)
    /\ [](txCall.kind = "SendRaw" => Len(written) + Len(txJob) <= Len(txCall.data))
    /\ [][uartWriteCall => Len(txJob') = Len(txJob) - 1]_vars

(* A send call has returned with the outbound queue full and bytes dropped, *)
(* no byte having left the UART since the first                             *)
C22_Witness ==
    /\ input.mode = "flood"
    /\ txCall.calls = 1
    /\ txJob = << >>
    /\ Len(outputRingBuffer) >= OUTPUT_RING_BUFFER_SIZE - 1
    /\ accepted # passed
    /\ txPending = 1

(***************************************************************************)
(* C23: the CRC is the table-driven reflected CRC-16 of polynomial 0x8408: *)
(* one call returns (accumulator >> 8) XOR fcstab[(accumulator XOR byte)   *)
(* AND 0xFF], and every table entry is the result of eight reflected       *)
(* shift/XOR steps on its index, so that the call equals the bit-by-bit    *)
(* update of the accumulator.                                              *)
(***************************************************************************)
ReflectedStep(x) ==
    IF x % 2 = 1 THEN BitXor(x \div 2, 33800) ELSE x \div 2

ReflectedByte(x) ==
    ReflectedStep(ReflectedStep(ReflectedStep(ReflectedStep(
    ReflectedStep(ReflectedStep(ReflectedStep(ReflectedStep(x))))))))

C23_CrcEngine ==
    /\ Len(fcstab) = 256
    /\ crcRun.steps > 0 =>
           /\ crcRun.out = BitXor(crcRun.crc \div 256,
                                  fcstab[(BitXor(crcRun.crc, crcRun.byte) % 256) + 1])
           /\ fcstab[crcRun.byte + 1] = ReflectedByte(crcRun.byte)
           /\ crcRun.out = ReflectedByte(BitXor(crcRun.crc, crcRun.byte))
           /\ crcRun.out \in 0..65535

C23_Witness ==
    /\ crcRun.steps = 2
    /\ crcRun.crc = openhdlc_crc(HDLC_CRCINIT, 255)
    /\ crcRun.byte = HDLC_FLAG
    /\ crcRun.out # crcRun.crc

(***************************************************************************)
(* C24: from the return of EMBENET_RADIO_LockHfxo until the call of        *)
(* EMBENET_RADIO_UnlockHfxo no radio driver operation turns the HFXO off:  *)
(* while the lock is requested the HFXO runs, and no step stops it.        *)
(***************************************************************************)
C24_HfxoLock ==
    radio.requested => radio.hfclk

(***************************************************************************)
(* C25: EMBENET_RADIO_TxEnable returns PARAMETER_ARGS_OUT_OF_BOUNDS for    *)
(* psduLen < 1 or psduLen > 128, and then neither enters TX_PREPARED nor   *)
(* modifies the frame buffer; it returns SUCCESS and enters TX_PREPARED    *)
(* only for psduLen in 1..128.                                             *)
(***************************************************************************)
C25_TxEnableArguments ==
    [][RadioTxEnable =>
          LET inBounds == radio'.psduLen \in
                  EMBENET_RADIO_MIN_PSDU_LENGTH..EMBENET_RADIO_MAX_PSDU_LENGTH
          IN  /\ inBounds =>
                     /\ radio'.status = "EMBENET_RADIO_STATUS_SUCCESS"
                     /\ radio'.state = "TX_PREPARED"
              /\ ~inBounds =>
                     /\ radio'.status = "EMBENET_RADIO_STATUS_PARAMETER_ARGS_OUT_OF_BOUNDS"
                     /\ radio'.state = radio.state
                     /\ radio'.state # "TX_PREPARED" \/ radio.state = "TX_PREPARED"
                     /\ radio'.frame = radio.frame]_vars

(***************************************************************************)
(* C26: with d = (compareValue - now) mod 2^32, EMBENET_TIMER_SetCompare   *)
(* pends the interrupt at once whenever d exceeds                          *)
(* EMBENET_TIMER_GetMaxCompareDuration() or compareValue is within the     *)
(* guard time of now, and arms the hardware compare otherwise: no d above  *)
(* GetMaxCompareDuration() is armed.                                       *)
(***************************************************************************)
C26_SetCompareClassification ==
    timer.set.valid =>
        (~timer.set.armed <=>
            \/ WideLess(WideOf(EMBENET_TIMER_GetMaxCompareDuration), timer.set.delta)
            \/ WideLess(timer.set.delta, WideOf(GUARD_US)))

(***************************************************************************)
(* C27: under every interleaving of RTC ticks, the overflow event, the     *)
(* timer IRQ handler and calls of EMBENET_TIMER_ReadCounter, every result  *)
(* is the elapsed time in us modulo 2^32 at a read of the counter made     *)
(* during the call, the values never go backwards, and the overflow        *)
(* extension is counted once per wrap of the counter.                      *)
(***************************************************************************)
(* floor(ticks * 30.517578125) *)
TrueUs(ticks) ==
    WideAdd(WideTimes(WideOf(ticks \div PERIOD_DEN), PERIOD_NUM),
            WideOf(((ticks % PERIOD_DEN) * PERIOD_NUM) \div PERIOD_DEN))

C27_Monotonic ==
    /\ [](WideAdd(timer.timerValueExtension,
                  IF timer.overflow THEN WideOf(OVERFLOW_EXTENSION_US) ELSE WideOf(0))
            = WideTimes(WideOf(OVERFLOW_EXTENSION_US),
                        timer.ticks \div (TIMER_MAX_VALUE + 1)))
    /\ [][ReadCounterExit =>
             /\ timer'.lastNow = TrueUs(timer.sample)
             /\ timer'.result = Truncate32(TrueUs(timer.sample))
             /\ timer'.result.hi \in 0..(Limb - 1)
             /\ timer.reads > 0 => ~WideLess(timer'.lastNow, timer.lastNow)]_vars

C27_Witness ==
    /\ timer.pc = "idle"
    /\ timer.reads = 2
    /\ timer.overflow
    /\ timer.prevNow.hi < Limb
    /\ timer.lastNow.hi >= Limb
    /\ timer.result = Truncate32(timer.lastNow)
    /\ timer.result # timer.lastNow

(***************************************************************************)
(* C28: a call that has validated a candidate frame, whether it passed the *)
(* CRC check, failed it, or did not fit the caller's buffer, leaves the    *)
(* decoder receiving with index 0, so that on FLAG <body1> FLAG <body2>    *)
(* FLAG each CRC-valid body that fits is returned by its own call.         *)
(***************************************************************************)
SharedExpected ==
    IF input.mode = "valid" THEN <<(<<42>>), input.payload>> ELSE <<input.payload>>

C28_SharedDelimiter ==
    /\ [](input.mode \in {"valid", "small", "crc"} =>
             /\ IsPrefix(results, SharedExpected)
             /\ AllConsumed => results = SharedExpected)
    /\ [][\A cap \in input.caps :
              (EMBENET_BRT_Receive(cap) /\ last'.checked) =>
                  (inputFrameReceiving' /\ inputFrameDataIndex' = 0)]_vars

C28_Witness ==
    /\ input.mode = "small"
    /\ input.payload = <<HDLC_FLAG, HDLC_ESCAPE>>
    /\ AllConsumed
    /\ Cardinality({i \in 1..Len(consumed) : consumed[i] = HDLC_FLAG}) = 3
    /\ results = <<input.payload>>
    /\ last.ret = 2

(***************************************************************************)
(* C29: a FLAG that arrives while receiving, after a byte that is not a    *)
(* FLAG and with at most 2 bytes accumulated, starts a new frame (decoder  *)
(* receiving, index 0) with no CRC check, and the call goes on consuming   *)
(* the queue; every non-zero value returned is between 1 and the smaller   *)
(* of the capacity passed and EMBENET_BRT_MAX_FRAME_SIZE - 2, and the      *)
(* frame of an empty payload is never reported.                            *)
(***************************************************************************)
(* the last byte popped is a FLAG that closes at most 2 accumulated bytes *)
ShortFrameClosed ==
    LET close == Len(consumed)
    IN  /\ close >= 3
        /\ consumed[close] = HDLC_FLAG
        /\ consumed[close - 1] # HDLC_FLAG
        /\ \E open \in 1..(close - 2) :
               /\ consumed[open] = HDLC_FLAG
               /\ \A j \in (open + 1)..(close - 1) : consumed[j] # HDLC_FLAG
               /\ Len(Unstuff(SubSeq(consumed, open + 1, close - 1))) <= 2

ShortFrameRestarts ==
    /\ ShortFrameClosed =>
           /\ inputFrameReceiving
           /\ inputFrameDataIndex = 0
           /\ ~last.checked
           /\ last.ret = 0
    /\ last.ret > 0 =>
           /\ last.ret >= 1
           /\ last.ret <= last.cap
           /\ last.ret <= EMBENET_BRT_MAX_FRAME_SIZE - 2
    /\ \A k \in 1..Len(results) : results[k] # << >>
    /\ IsPrefix(results, <<input.payload>>)

C29_TooShort ==
    /\ []ShortFrameRestarts
    /\ [][\A cap \in input.caps :
              (EMBENET_BRT_Receive(cap) /\ ShortFrameClosed') =>
                  inputRingBuffer' = << >>]_vars

(* the longest payload has been returned by a call that started with the *)
(* frame of the empty payload                                             *)
C29_Witness ==
    /\ Len(consumed) > 4
    /\ SubSeq(consumed, 1, 4) = <<HDLC_FLAG, 0, 0, HDLC_FLAG>>
    /\ consumed[5] # HDLC_FLAG
    /\ last.ret = EMBENET_BRT_MAX_FRAME_SIZE - 2
    /\ last.cap = EMBENET_BRT_MAX_FRAME_SIZE
    /\ AllConsumed

(***************************************************************************)
(* C30 as stated: while receiving, at every accumulator index from 0 to    *)
(* EMBENET_BRT_MAX_FRAME_SIZE, the full accumulator included, an ESCAPE is *)
(* consumed without being stored and leaves the decoder receiving at the   *)
(* same index; the next byte that is neither FLAG nor ESCAPE is stored     *)
(* XOR 0x20, and a byte that does not follow an ESCAPE is stored verbatim. *)
(***************************************************************************)
(* the bytes popped so far are FLAG, the filling bytes and tail *)
Popped(tail) == consumed = <<HDLC_FLAG>> \o Filler(input.pos) \o tail

(* the accumulator holds the filling bytes and then stored *)
Accumulated(stored) ==
    /\ inputFrameReceiving
    /\ inputFrameDataIndex = input.pos + Len(stored)
    /\ SubSeq(inputFrame, 1, inputFrameDataIndex) = Filler(input.pos) \o stored

C30_EscapeTransition ==
    /\ Popped(<<HDLC_ESCAPE>>) => Accumulated(<< >>)
    /\ (Popped(<<HDLC_ESCAPE, 94>>) /\ input.pos < EMBENET_BRT_MAX_FRAME_SIZE) =>
           Accumulated(<<BitXor(94, HDLC_ESCAPE_MASK)>>)
    /\ (Popped(<<7>>) /\ input.pos < EMBENET_BRT_MAX_FRAME_SIZE) =>
           Accumulated(<<7>>)

(***************************************************************************)
(* C30, amended: the same at every index below                             *)
(* EMBENET_BRT_MAX_FRAME_SIZE; with a full accumulator an ESCAPE aborts    *)
(* the frame like any other byte that is not a FLAG: the decoder stops     *)
(* receiving, the index is 0 and the byte after the ESCAPE is discarded.   *)
(***************************************************************************)
Aborted == ~inputFrameReceiving /\ inputFrameDataIndex = 0

C30_EscapeBelowFull ==
    /\ input.pos < EMBENET_BRT_MAX_FRAME_SIZE =>
           /\ Popped(<<HDLC_ESCAPE>>) => Accumulated(<< >>)
           /\ Popped(<<HDLC_ESCAPE, 94>>) =>
                  Accumulated(<<BitXor(94, HDLC_ESCAPE_MASK)>>)
           /\ Popped(<<7>>) => Accumulated(<<7>>)
    /\ input.pos = EMBENET_BRT_MAX_FRAME_SIZE =>
           /\ Popped(<<HDLC_ESCAPE>>) => Aborted
           /\ Popped(<<HDLC_ESCAPE, 94>>) => Aborted
           /\ Popped(<<7>>) => Aborted

(* the last free place of the accumulator has taken an unescaped FLAG *)
C30_Witness ==
    /\ input.pos = EMBENET_BRT_MAX_FRAME_SIZE - 1
    /\ Popped(<<HDLC_ESCAPE, 94>>)
    /\ inputFrameDataIndex = EMBENET_BRT_MAX_FRAME_SIZE
    /\ inputFrame[EMBENET_BRT_MAX_FRAME_SIZE] = HDLC_FLAG
    /\ inputFrameReceiving

(***************************************************************************)
(* C31: the non-zero results of EMBENET_BRT_Receive do not depend on how   *)
(* the arrival of a byte stream is split across the polls: in every state, *)
(* whatever polls have been made, the payloads returned so far followed by *)
(* those that polling the rest of the stream at once returns are the       *)
(* payloads that polling the whole stream at once returns.                 *)
(***************************************************************************)
(* the payloads returned by polling until queue is drained, from decoder  *)
(* session d, after the payloads of acc                                    *)
RECURSIVE Drain(_, _, _, _)
Drain(d, queue, packetBufferSize, acc) ==
    IF queue = << >> THEN acc
    ELSE LET lp == ReceiveLoop([d |-> [d EXCEPT !.frameComplete = FALSE],
                                popped |-> 0], queue, 1, Len(queue))
             r  == ReceiveFrame(lp.d, packetBuffer, packetBufferSize)
         IN  Drain(r.d, SubSeq(queue, lp.popped + 1, Len(queue)), packetBufferSize,
                   IF r.ret > 0 THEN Append(acc, SubSeq(r.buffer, 1, r.ret)) ELSE acc)

(* the decoder session before any byte *)
FreshDecoder ==
    [inputFrame |-> [i \in 1..EMBENET_BRT_MAX_FRAME_SIZE |-> 0],
     inputFrameDataIndex |-> 0, inputFrameReceiving |-> FALSE,
     lastDataByte |-> 0, frameComplete |-> FALSE]

C31_FragmentationIndependent ==
    \A cap \in input.caps :
        /\ Drain(DecoderState, inputRingBuffer \o wire, cap, results)
               = Drain(FreshDecoder, consumed \o inputRingBuffer \o wire, cap, << >>)
        /\ AllConsumed =>
               results = Drain(FreshDecoder, consumed, cap, << >>)

(* a poll has ended between an ESCAPE and the byte it escapes, in the     *)
(* second frame of the stream                                             *)
C31_Witness ==
    /\ results = <<(<<42>>)>>
    /\ inputRingBuffer = << >>
    /\ wire # << >>
    /\ inputFrameReceiving
    /\ lastDataByte = HDLC_ESCAPE
    /\ last.called

(***************************************************************************)
(* C32: whatever rx_isr does while EMBENET_BRT_Receive or                  *)
(* EMBENET_BRT_ReceiveRaw runs, the bytes popped so far, the bytes in the  *)
(* queue and the bytes still to arrive make up the line, in order (every   *)
(* byte pushed is popped once and in arrival order); the pop of line 149   *)
(* always finds a byte in the queue, and a pop removes the oldest byte.    *)
(***************************************************************************)
InOrder == consumed \o inputRingBuffer \o wire = lineAtReset

C32_ReceiveInterleaving ==
    /\ [](InOrder /\ Len(inputRingBuffer) < INPUT_RING_BUFFER_SIZE)
    /\ [](rxRun.pc = "pop" => RingBuffer_GetLen(inputRingBuffer) > 0)
    /\ [][ReceivePop => /\ Len(consumed') = Len(consumed) + 1
                        /\ consumed'[Len(consumed')] = Head(inputRingBuffer)]_vars
    /\ [][ReceiveRawCall => Len(consumed') = Len(consumed) + raw'.ret]_vars

(* rx_isr has pushed a byte between the length check of line 147 and the  *)
(* pop of line 149 of a running call, and an earlier byte has been popped *)
C32_Witness ==
    /\ rxRun.pc = "pop"
    /\ Len(inputRingBuffer) = 2
    /\ consumed # << >>
    /\ raw.called
    /\ wire = << >>

(***************************************************************************)
(* C33: uartWrite, EMBENET_BRT_Receive, EMBENET_BRT_ReceiveRaw, tx_isr and *)
(* rx_isr make as many Exit calls as Enter calls on every path: the nest   *)
(* counter a function leaves on return is the one it found on entry,       *)
(* whatever interrupt handlers ran meanwhile; at rest it changes only by   *)
(* the caller's own Enter and Exit, it is 0 when the caller holds no       *)
(* section of its own, and it is never negative.                           *)
(***************************************************************************)
(* the number of operations op still to execute in the running function *)
Count(job, op) == Cardinality({i \in 1..Len(job) : job[i] = op})

(* the nest counter there will be when the running function has returned *)
CounterOnReturn ==
    irqNestCounter + Count(csJob, "Enter") + Count(csJob, "EnterDisable")
        - Count(csJob, "Exit")

C33_Balanced ==
    /\ [](irqNestCounter >= 0)
    /\ [][StartCall => CounterOnReturn' = irqNestCounter]_vars
    /\ [][(MainStep \/ Interrupt) => CounterOnReturn' = CounterOnReturn]_vars
    /\ [][Interrupt => irqNestCounter' = irqNestCounter]_vars
    /\ [][(CounterOnReturn' # CounterOnReturn) => (CallEnter \/ CallExit)]_vars
    /\ []((csJob = << >> /\ primask = 0) => irqNestCounter = 0)

(* EMBENET_BRT_ReceiveRaw has returned inside a section of its caller that *)
(* was entered with interrupts enabled                                     *)
C33_Witness ==
    /\ csFn = "EMBENET_BRT_ReceiveRaw"
    /\ csJob = << >>
    /\ irqNestCounter = 1
    /\ outerIrq = 0

(***************************************************************************)
(* C34: EMBENET_NODE_BSP_UART_WriteByte is never called while a byte       *)
(* written before still awaits its transmit-complete notification: at most *)
(* one byte is outstanding, whatever EMBENET_BRT_Init, Send, SendRaw and   *)
(* Deinit calls and transmit-complete interrupts have been made.           *)
(***************************************************************************)
C34_OneByteOutstanding == txPending <= 1

(***************************************************************************)
(* C35: the CRC folded from 0xFFFF over a payload followed by the two CRC  *)
(* bytes EMBENET_BRT_Send appends (complemented CRC, low byte first) is    *)
(* HDLC_CRCGOOD = 0xF0B8, and the CRC comparison of EMBENET_BRT_Receive    *)
(* accepts the bytes of a frame exactly when the CRC folded over all of    *)
(* them is HDLC_CRCGOOD.                                                   *)
(***************************************************************************)
Residue(S) == CrcLoop(HDLC_CRCINIT, S, 1, Len(S))

C35_CrcResidue ==
    /\ HDLC_CRCGOOD = 61624
    /\ (crcRun.sent /\ ~crcRun.noisy) => Residue(crcRun.frame) = HDLC_CRCGOOD
    /\ crcRun.checked => (crcRun.accepted <=> Residue(crcRun.frame) = HDLC_CRCGOOD)

(* The frame of payload 01 7E 7D 02 has been accepted as sent *)
C35_Witness ==
    /\ crcRun.checked /\ crcRun.accepted /\ ~crcRun.noisy
    /\ crcRun.frame = ExamplePayload \o <<8, 19>>

(***************************************************************************)
(* C36: when EMBENET_BRT_Init returns the decoder is searching with an     *)
(* empty accumulator, and every frame EMBENET_BRT_Receive returns is       *)
(* decoded from the bytes received since the last reset of the inbound     *)
(* queue alone: no byte accumulated before contributes to it.              *)
(***************************************************************************)
(* the frame a call returns is one a fresh decoder returns on the bytes *)
(* that arrived since the last reset of the inbound queue               *)
ReturnsFresh ==
    \E cap \in input.caps :
        LET fresh == Drain(FreshDecoder, ArrivedSinceReset, cap, << >>)
        IN  \E k \in 1..Len(fresh) : fresh[k] = results'[Len(results')]

C36_DecoderIsolation ==
    /\ [][InitReturns => (~inputFrameReceiving' /\ inputFrameDataIndex' = 0)]_vars
    /\ [][(ReceiveBetween /\ last'.ret > 0) => ReturnsFresh]_vars

(***************************************************************************)
(* C37: the compare callback is invoked at most once per                   *)
(* EMBENET_TIMER_SetCompare call and only after such a call, and for a     *)
(* compare value classified as future not before the counter reaches the   *)
(* compare value set last, whatever COMPARE_0 event was pending before the *)
(* call or is seen by the handler during an overflow interrupt.            *)
(***************************************************************************)
C37_CallbackTimely ==
    /\ timer.callbacks <= 1
    /\ timer.callbacks > 0 => timer.set.valid
    /\ ~timer.early

=============================================================================
